---- MODULE Spec2Model ----
(***************************************************************************)
(* State-machine model of the EPFO bot backend: the /chat orchestrator     *)
(* (app/main.py), the retrieval / prompt builder (rag_service.py), the     *)
(* generation client (llm_service.py), the interaction store               *)
(* (supabase_service.py) and the lazily initialised service singletons.    *)
(*                                                                         *)
(* Strings are sequences of tokens.  A token is either one character that  *)
(* the code inspects (".", " ", "!", "?", newline) or an opaque piece of    *)
(* text (a word, the marker "Answer:", a fixed template fragment).          *)
(* Optional[str] is a sequence of at most one string: <<>> is None.        *)
(* Object references are positive integers; None is 0.                     *)
(***************************************************************************)
EXTENDS Integers, Sequences, FiniteSets, TLC

VARIABLES
    \* ---- one chat turn per id (locals of chat(), app/main.py) ----
    pc,               \* position of each turn in chat()
    raw_question,     \* "question" of the JSON body as it was posted
    current_user,     \* current_user.id of the turn
    user_query,       \* request_body.question
    final_prompt,     \* local final_prompt
    source_context,   \* local source_context
    bot_response,     \* local bot_response
    exc,              \* exception caught by the outer except (<<>>: none)
    response,         \* ChatResponse returned to the caller (<<>>: not yet)
    \* ---- observation of the turn's calls to its collaborators ----
    trace,            \* stage blocks executed by the turn, in order
    stage_out,        \* outcome kind of each stage of the turn
    llm_prompts,      \* prompts passed to query_huggingface_model
    saves,            \* arguments of the turn's save_chat_to_db calls
    \* ---- process-wide state ----
    chat_history,     \* rows of the chat_history table, in insertion order
    _rag_service,     \* module global of rag_service.py
    _supabase_service,\* module global of supabase_service.py
    _instance,        \* LLMService._instance
    _initialized,     \* LLMService._instance._initialized (attribute)
    api_url,          \* LLMService._instance.api_url is set
    \* ---- threads performing a first use of the service getters ----
    th_pc,            \* position of each thread
    th_call,          \* which getter the thread calls
    th_obj,           \* object the thread holds (constructed / self)
    th_ret,           \* value returned to the thread's caller (0: none)
    _lock,            \* LLMService._lock holder (0: free)
    constructed,      \* number of objects constructed, per service class
    init_calls,       \* executions of LLMService._initialize_client that completed
    \* ---- the generation client called on its own ----
    client_reply,     \* what the inference endpoint does with the request
    client_out,       \* results of the calls made so far, by call name
    \* ---- the interaction store read on its own ----
    store_out,        \* the last call of the store service and its result
    timestamptz       \* the created_at column holds a time zone offset

turn_vars == <<pc, raw_question, current_user, user_query, final_prompt, source_context,
               bot_response, exc, response, trace, stage_out, llm_prompts, saves>>
service_vars == <<_rag_service, _supabase_service, _instance, _initialized, api_url>>
thread_vars == <<th_pc, th_call, th_obj, th_ret, _lock, constructed, init_calls>>
client_vars == <<client_reply, client_out>>
store_vars == <<store_out, timestamptz>>
vars == <<turn_vars, chat_history, service_vars, thread_vars, client_vars,
          store_vars>>

----------------------------------------------------------------------------
(* Bounds of the model *)

\* number of concurrently running chat turns
NumTurns == 2
\* longest list of matches the index query returns
MaxMatches == 2
\* number of threads racing on the first use of a service getter
NumThreads == 2
\* longest generated text, in tokens, that the generation client is given
MaxTextLen == 4
\* most rows the chat_history table holds when the store is read on its own
MaxRows == 3
\* latest reading of the clock, in ticks
MaxTime == 2

None == 0

----------------------------------------------------------------------------
(* Strings *)

EmptyStr == << >>
Whitespace == {" ", "\n"}

RECURSIVE lstrip(_)
lstrip(s) == IF s # << >> /\ Head(s) \in Whitespace THEN lstrip(Tail(s)) ELSE s

RECURSIVE rstrip(_)
rstrip(s) ==
    IF s # << >> /\ s[Len(s)] \in Whitespace
    THEN rstrip(SubSeq(s, 1, Len(s) - 1))
    ELSE s

\* str.strip()
strip(s) == rstrip(lstrip(s))

\* sep.join(parts)
RECURSIVE join(_, _)
join(sep, parts) ==
    IF parts = << >> THEN EmptyStr
    ELSE IF Len(parts) = 1 THEN parts[1]
    ELSE parts[1] \o sep \o join(sep, Tail(parts))

\* positions at which the one-token marker m occurs in s
Occurrences(s, m) == {i \in 1..Len(s) : s[i] = m}

\* positions i at which the two-token separator <<a, b>> starts in s
Occurrences2(s, a, b) == {i \in 1..(Len(s) - 1) : s[i] = a /\ s[i + 1] = b}

Max(S) == CHOOSE x \in S : \A y \in S : y <= x

\* the number of characters of the text a token stands for: of the tokens
\* that abbreviate a longer text (the long word of a question, the fixed
\* parts of the two prompt templates)
AbbreviatedLength ==
    ("<a word of 998 characters>" :> 998)
    @@ ("You are Providentia, ... Instructions: 1. Answer ONLY based on the provided context ... 6. Use simple language" :> 571)
    @@ ("You are Providentia, an expert EPFO assistant." :> 87)
    @@ ("Please provide a helpful response about EPF-related matters. ... what additional details would be helpful." :> 192)

\* the number of characters of every other token of more than one character
CharCount ==
    ("---" :> 3)
    @@ ("An unexpected error occurred while processing your request." :> 59)
    @@ ("Answer:" :> 7)
    @@ ("Authentication failed. Please check your HUGGINGFACE_API_TOKEN." :> 63)
    @@ ("But thr" :> 7)
    @@ ("Context:" :> 8)
    @@ ("EPF is a retirement savings scheme" :> 34)
    @@ ("Error querying the model: " :> 26)
    @@ ("Fact" :> 4)
    @@ ("Fact one" :> 8)
    @@ ("Fact thr" :> 8)
    @@ ("Fact two" :> 8)
    @@ ("Failed to retrieve context and build prompt: " :> 45)
    @@ ("Failed to save chat data" :> 24)
    @@ ("Five years" :> 10)
    @@ ("How do I withdraw my EPF balance?" :> 33)
    @@ ("Hugging Face API error (HTTP status): " :> 38)
    @@ ("Hugging Face API error: " :> 24)
    @@ ("I apologize, but I couldn't generate a response at this time." :> 61)
    @@ ("I apologize, but I encountered an error while processing your request. Please try again." :> 88)
    @@ ("I apologize, but I'm currently experiencing technical difficulties. Please try again later." :> 91)
    @@ ("'int' object has no attribute 'get'" :> 35)
    @@ ("Internal error" :> 14)
    @@ ("Is Currently Loading" :> 20)
    @@ ("LLMService is not properly initialized." :> 39)
    @@ ("Model m " :> 8)
    @@ ("Model not found. Please check the model name." :> 45)
    @@ ("Network error occurred: " :> 24)
    @@ ("Question: " :> 10)
    @@ ("RAG service initialization failed" :> 33)
    @@ ("Rate Limited" :> 12)
    @@ ("Rate limit exceeded. Please try again later." :> 44)
    @@ ("System Error: Unable to process request" :> 39)
    @@ ("The model is currently loading. Please try again in a few moments." :> 66)
    @@ ("The request timed out as the model is taking too long to respond." :> 65)
    @@ ("Test question?" :> 14)
    @@ ("What is EPF?" :> 12)
    @@ ("Withdrawal needs five years of service" :> 38)
    @@ ("Yes" :> 3)
    @@ ("You are " :> 8)
    @@ ("connection error" :> 16)
    @@ ("embed_content failed" :> 20)
    @@ ("index query failed" :> 18)
    @@ ("invalid JSON body" :> 17)
    @@ ("is currently loading" :> 20)
    @@ ("no relevant context found" :> 25)
    @@ ("rate limited" :> 12)
    @@ ("unexpected error" :> 16)

\* len(tok): a token outside the two tables is a single character
TokenLength(tok) ==
    IF tok \in DOMAIN AbbreviatedLength THEN AbbreviatedLength[tok]
    ELSE IF tok \in DOMAIN CharCount THEN CharCount[tok]
    ELSE 1
RECURSIVE len(_)
len(s) == IF s = << >> THEN 0 ELSE TokenLength(Head(s)) + len(Tail(s))

\* str.lower(), on the tokens that have an upper-case spelling
LowerToken(tok) ==
    IF tok = "Is Currently Loading" THEN "is currently loading"
    ELSE IF tok = "Rate Limited" THEN "rate limited"
    ELSE tok
lower(s) == [i \in 1..Len(s) |-> LowerToken(s[i])]

\* the tokens that occur in s (for the test `marker in s`)
Tokens(s) == {s[i] : i \in 1..Len(s)}

----------------------------------------------------------------------------
(* Retrieval and prompt building: RAGService (app/services/rag_service.py) *)

\* match.get("metadata", {}).get("text"): <<>> when the match has no text,
\* <<s>> when its metadata carries the text s (s may be the empty string)
MatchText(match) == match.text

\* truthiness of match.get("metadata", {}).get("text")
HasText(match) == MatchText(match) # << >> /\ MatchText(match)[1] # EmptyStr

GroundedPreamble ==
    <<"You are Providentia, ... Instructions: 1. Answer ONLY based on the provided context ... 6. Use simple language", "\n", "\n", "Context:", "\n">>

FallbackPreamble == <<"You are Providentia, an expert EPFO assistant.", " ", "\n", "\n">>

FallbackInstruction ==
    <<"Please provide a helpful response about EPF-related matters. ... what additional details would be helpful.">>

GenerationCue == "Answer:"

\* a variant of the grounded prompt that stops after the question
_build_prompt_without_cue(query, context) ==
    GroundedPreamble \o context \o <<"\n", "\n", "Question: ">> \o query

_build_prompt(query, context) ==
    GroundedPreamble \o context \o <<"\n", "\n", "Question: ">> \o query
        \o <<"\n", "\n", GenerationCue>>

\* a variant that hands the question over unchanged
RawQuestionPrompt(query) == query

\* RAGService._create_fallback_prompt
_create_fallback_prompt(query) ==
    FallbackPreamble \o <<"Question: ">> \o query \o <<"\n", "\n">>
        \o FallbackInstruction \o <<"\n", "\n", GenerationCue>>

\* a variant of the loop that puts each text in front of the earlier ones
RECURSIVE context_parts_reversed(_)
context_parts_reversed(matches) ==
    IF matches = << >> THEN << >>
    ELSE IF MatchText(Head(matches)) # << >> /\ MatchText(Head(matches))[1] # << >>
         THEN context_parts_reversed(Tail(matches)) \o <<MatchText(Head(matches))[1]>>
         ELSE context_parts_reversed(Tail(matches))

\* the loop over matches: texts of the matches that carry a text, in order
RECURSIVE context_parts(_)
context_parts(matches) ==
    IF matches = << >> THEN << >>
    ELSE IF HasText(Head(matches))
         THEN <<MatchText(Head(matches))[1]>> \o context_parts(Tail(matches))
         ELSE context_parts(Tail(matches))

ContextSeparator == <<"\n", "\n", "---", "\n", "\n">>
SourceSeparator == <<"\n", "\n">>

RagRaised(cause) ==
    [raised |-> TRUE,
     error |-> <<"Failed to retrieve context and build prompt: ", cause>>,
     final_prompt |-> EmptyStr, source_context |-> EmptyStr]

RagReturns(prompt, context) ==
    [raised |-> FALSE, error |-> EmptyStr,
     final_prompt |-> prompt, source_context |-> context]

\* a variant that keeps the passages out of source_context
get_final_prompt_without_source(query, rag) ==
    IF rag.kind = "embed_raises" THEN RagRaised("embed_content failed")
    ELSE IF rag.kind = "query_raises" THEN RagRaised("index query failed")
    ELSE LET parts == context_parts(rag.matches) IN
         IF parts = << >>
         THEN RagReturns(_create_fallback_prompt(query), EmptyStr)
         ELSE RagReturns(_build_prompt(query, join(ContextSeparator, parts)),
                         EmptyStr)

\* a variant for which an empty retrieval is a failure
get_final_prompt_or_fail(query, rag) ==
    IF rag.kind = "embed_raises" THEN RagRaised("embed_content failed")
    ELSE IF rag.kind = "query_raises" THEN RagRaised("index query failed")
    ELSE LET parts == context_parts(rag.matches) IN
         IF parts = << >>
         THEN RagRaised("no relevant context found")
         ELSE RagReturns(_build_prompt(query, join(ContextSeparator, parts)),
                         join(SourceSeparator, parts))

\* RAGService.get_final_prompt_for_llm(user_query), given what the embedding
\* call and the index query do: rag.kind is "embed_raises", "query_raises" or
\* "matches" (then rag.matches is the list the index returned)
get_final_prompt_for_llm(query, rag) ==
    IF rag.kind = "embed_raises" THEN RagRaised("embed_content failed")
    ELSE IF rag.kind = "query_raises" THEN RagRaised("index query failed")
    ELSE IF rag.matches = << >>
         THEN RagReturns(_create_fallback_prompt(query), EmptyStr)
    ELSE LET parts == context_parts(rag.matches) IN
         IF parts = << >>
         THEN RagReturns(_create_fallback_prompt(query), EmptyStr)
         ELSE RagReturns(_build_prompt(query, join(ContextSeparator, parts)),
                         join(SourceSeparator, parts))

----------------------------------------------------------------------------
(* Generation client: LLMService (app/services/llm_service.py) *)

TerminalPunctuation == {".", "!", "?"}

\* a variant that leaves the text without the period after the kept sentences
_clean_response_without_period(text) ==
    LET stripped == strip(text)
        marks == Occurrences(stripped, "Answer:")
        cleaned == IF marks # {}
                   THEN strip(SubSeq(stripped, Max(marks) + 1, Len(stripped)))
                   ELSE stripped
        seps == Occurrences2(cleaned, ".", " ")
    IN  IF cleaned # << >> /\ cleaned[Len(cleaned)] \notin TerminalPunctuation
           /\ seps # {}
        THEN SubSeq(cleaned, 1, Max(seps) - 1)
        ELSE cleaned

\* a variant that drops the last sentence of every text of several sentences
_clean_response_always_dropping(text) ==
    LET stripped == strip(text)
        marks == Occurrences(stripped, "Answer:")
        cleaned == IF marks # {}
                   THEN strip(SubSeq(stripped, Max(marks) + 1, Len(stripped)))
                   ELSE stripped
        seps == Occurrences2(cleaned, ".", " ")
    IN  IF seps # {}
        THEN SubSeq(cleaned, 1, Max(seps) - 1) \o <<".">>
        ELSE cleaned

\* LLMService._clean_response
_clean_response(text) ==
    LET stripped == strip(text)
        marks == Occurrences(stripped, "Answer:")
        cleaned == IF marks # {}
                   THEN strip(SubSeq(stripped, Max(marks) + 1, Len(stripped)))
                   ELSE stripped
        seps == Occurrences2(cleaned, ".", " ")
    IN  IF cleaned # << >> /\ cleaned[Len(cleaned)] \notin TerminalPunctuation
           /\ seps # {}
        THEN SubSeq(cleaned, 1, Max(seps) - 1) \o <<".">>
        ELSE cleaned

EmptyPlaceholder == <<"I apologize, but I couldn't generate a response at this time.">>

LlmRaised(message) == [raised |-> TRUE, error |-> message, value |-> EmptyStr]
LlmReturns(text) == [raised |-> FALSE, error |-> EmptyStr, value |-> text]

\* a variant of the try block that cleans the text of the list shape only
try_get_response_object_uncleaned(reply) ==
    IF reply.kind \in {"list", "dict_text"}
    THEN [exc_type |-> "", message |-> EmptyStr,
          value |-> IF reply.text = EmptyStr THEN EmptyPlaceholder
                    ELSE IF reply.kind = "list" THEN _clean_response(reply.text)
                    ELSE reply.text]
    ELSE [exc_type |-> "Exception", value |-> EmptyStr, message |-> EmptyStr]

\* a variant of the try block for which an empty generated text is an error
try_get_response_empty_raises(reply) ==
    IF reply.kind \in {"list", "dict_text"} /\ reply.text # EmptyStr
    THEN [exc_type |-> "", message |-> EmptyStr,
          value |-> _clean_response(reply.text)]
    ELSE [exc_type |-> "Exception", value |-> EmptyStr, message |-> EmptyStr]

\* the replies with status 200 and a JSON body are of kind "list" (a list
\* whose first element is an object, with generated_text reply.text),
\* "dict_text" (an object with generated_text reply.text and no error key),
\* "dict_error" (an object with the error message reply.text and no
\* generated_text), "dict_error_text" (an object with both keys: the error
\* message "Internal error" and generated_text reply.text), "malformed" (a
\* list whose first element is not an object, or a generated_text that is
\* not a string: using it raises AttributeError) or "other" (an empty
\* list, an object with neither key, a list of an object without
\* generated_text, any other JSON value)

\* response_json['error']
ErrorField(reply) ==
    IF reply.kind = "dict_error" THEN reply.text ELSE <<"Internal error">>

\* str(e) of the AttributeError that a malformed body raises
NoAttribute == <<"'int' object has no attribute 'get'">>

\* the body of the try block of get_response (lines 126-171): what it returns,
\* or the exception class it raises with its message
try_get_response(reply) ==
    IF reply.kind = "timeout"
    THEN [exc_type |-> "Timeout", value |-> EmptyStr, message |-> EmptyStr]
    ELSE IF reply.kind = "connection_error"
    THEN [exc_type |-> "RequestException", value |-> EmptyStr,
          message |-> <<"connection error">>]
    ELSE IF reply.kind = "http_error"
    THEN [exc_type |-> "HTTPError", value |-> EmptyStr, message |-> EmptyStr]
    ELSE IF reply.kind = "invalid_json"
    THEN [exc_type |-> "RequestException", value |-> EmptyStr,
          message |-> <<"invalid JSON body">>]
    ELSE IF reply.kind \in {"dict_error", "dict_error_text"}
    THEN [exc_type |-> "Exception", value |-> EmptyStr,
          message |->
            IF "is currently loading" \in Tokens(lower(ErrorField(reply)))
            THEN <<"The model is currently loading. Please try again in a few moments.">>
            ELSE IF "rate limited" \in Tokens(lower(ErrorField(reply)))
            THEN <<"Rate limit exceeded. Please try again later.">>
            ELSE <<"Hugging Face API error: ">> \o ErrorField(reply)]
    ELSE IF reply.kind = "malformed"
    THEN [exc_type |-> "Exception", value |-> EmptyStr,
          message |-> NoAttribute]
    ELSE LET generated_text ==
                 IF reply.kind \in {"list", "dict_text"} THEN reply.text
                 ELSE EmptyStr   \* empty list, dict without known key, other JSON
         IN [exc_type |-> "", message |-> EmptyStr,
             value |-> IF generated_text = EmptyStr THEN EmptyPlaceholder
                       ELSE _clean_response(generated_text)]

\* LLMService.get_response(prompt): the except clauses of lines 173-198
get_response(has_api_url, reply) ==
    IF ~has_api_url THEN LlmRaised(<<"LLMService is not properly initialized.">>)
    ELSE LET r == try_get_response(reply) IN
    IF r.exc_type = "" THEN LlmReturns(r.value)
    ELSE IF r.exc_type = "Timeout"
    THEN LlmRaised(<<"The request timed out as the model is taking too long to respond.">>)
    ELSE IF r.exc_type = "HTTPError"
    THEN IF reply.status = 401
         THEN LlmRaised(<<"Authentication failed. Please check your HUGGINGFACE_API_TOKEN.">>)
         ELSE IF reply.status = 429
         THEN LlmRaised(<<"Rate limit exceeded. Please try again later.">>)
         ELSE IF reply.status = 503
         THEN LlmRaised(<<"The model is currently loading. Please try again in a few moments.">>)
         ELSE IF reply.status = 404
         THEN LlmRaised(<<"Model not found. Please check the model name.">>)
         ELSE LlmRaised(<<"Hugging Face API error (HTTP status): ">>)
    ELSE IF r.exc_type = "RequestException"
    THEN LlmRaised(<<"Network error occurred: ">> \o r.message)
    ELSE LlmRaised(<<"An unexpected error occurred while processing your request.">>)

\* LLMService.query_huggingface_model(prompt) as chat() calls it: no token or
\* model override, so the call is get_response(prompt, 512, 0.7, 0.95)
query_huggingface_model(has_api_url, reply) == get_response(has_api_url, reply)

\* LLMService.query_huggingface_model(prompt, hf_api_token, model_url) with an
\* override given (lines 227-268): its own request, the same two reply
\* shapes, no inspection of an error field, one except clause for everything
query_huggingface_model_with_overrides(reply) ==
    IF reply.kind \in {"timeout", "connection_error", "http_error", "invalid_json"}
    THEN LlmRaised(<<"Error querying the model: ", reply.kind>>)
    ELSE IF reply.kind = "malformed"
    THEN LlmRaised(<<"Error querying the model: ">> \o NoAttribute)
    ELSE LET generated_text ==
                 IF reply.kind \in {"list", "dict_text", "dict_error_text"}
                 THEN reply.text
                 ELSE EmptyStr
         IN  LlmReturns(IF generated_text = EmptyStr THEN EmptyPlaceholder
                        ELSE _clean_response(generated_text))

----------------------------------------------------------------------------
(* Interaction store: SupabaseService (app/services/supabase_service.py) *)

\* a variant of chat_data that leaves the context out
ChatDataWithoutContext(user_id, query, answer, context) ==
    [user_id |-> user_id, user_message |-> query,
     bot_response |-> answer, source_context |-> EmptyStr]

\* chat_data of save_chat_to_db (created_at is not modelled here)
ChatData(user_id, query, answer, context) ==
    [user_id |-> user_id, user_message |-> query,
     bot_response |-> answer, source_context |-> context]

\* a variant whose insert replaces the table's content
save_chat_to_db_overwriting(table, row, db) ==
    [raised |-> db = "raises",
     table |-> IF db = "inserted" THEN <<row>> ELSE table]

\* a variant whose insert replaces the rows the user already has
save_chat_to_db_upserting(table, row, db) ==
    [raised |-> db = "raises",
     table |-> IF db = "inserted"
               THEN LET Other(r) == r.user_id # row.user_id
                    IN  Append(SelectSeq(table, Other), row)
               ELSE table]

\* SupabaseService.save_chat_to_db: db is what the insert does: "inserted"
\* (a row is stored and returned), "no_data" (nothing stored, empty result:
\* logged as a warning) or "raises" (the request fails: re-raised)
save_chat_to_db(table, row, db) ==
    [raised |-> db = "raises",
     table |-> IF db = "inserted" THEN Append(table, row) ELSE table]

\* chat_data with its created_at, datetime.utcnow() read as `now`
ChatDataAt(user_id, query, answer, context, now) ==
    [user_id |-> user_id, user_message |-> query,
     bot_response |-> answer, source_context |-> context, created_at |-> now]

StoreRaised == [raised |-> TRUE, data |-> << >>]
StoreReturns(data) == [raised |-> FALSE, data |-> data]

\* .eq("user_id", user_id)
eq_user_id(table, user_id) ==
    LET Mine(row) == row.user_id = user_id IN SelectSeq(table, Mine)

\* a variant of the query that orders by created_at ascending
OrdersAscending(rows) ==
    {o \in Permutations(1..Len(rows)) :
        \A i, j \in 1..Len(rows) :
            i < j => rows[o[i]].created_at <= rows[o[j]].created_at}

\* .order("created_at", desc=True): the orders in which the database may
\* return the rows, rows with equal created_at in any order
Orders(rows) ==
    {o \in Permutations(1..Len(rows)) :
        \A i, j \in 1..Len(rows) :
            i < j => rows[o[i]].created_at >= rows[o[j]].created_at}

Min(a, b) == IF a <= b THEN a ELSE b

\* .range(offset, offset + limit - 1) on the ordered rows
range(rows, from, to) == SubSeq(rows, from + 1, Min(to + 1, Len(rows)))

\* SupabaseService.get_user_chat_history(user_id, limit, offset): `order` is
\* the order the database returns, `failed` tells that the request fails
get_user_chat_history(table, user_id, limit, offset, order, failed) ==
    IF failed THEN StoreRaised
    ELSE LET rows == eq_user_id(table, user_id)
             ordered == [i \in 1..Len(rows) |-> rows[order[i]]]
         IN  StoreReturns(range(ordered, offset, offset + limit - 1))

RECURSIVE sum_len(_)
sum_len(chats) ==
    IF chats = << >> THEN 0
    ELSE len(Head(chats).bot_response) + sum_len(Tail(chats))

\* a / b as a fraction, and the integer 0
Fraction(a, b) == [num |-> a, den |-> b]
Zero == [num |-> 0, den |-> 1]

\* the rows a statistics call selects: .eq("user_id", user_id) when a user
\* is given (user_id is <<>> for None)
statistics_chats(table, user_id) ==
    IF user_id # << >> /\ user_id[1] # "" THEN eq_user_id(table, user_id[1]) ELSE table

\* SupabaseService.get_chat_statistics(user_id): midnights[i] is utcnow() at
\* 00:00 as read when the i-th row is compared (the clock is read once per
\* row), a naive datetime; aware tells that the created_at strings read from
\* the table carry an offset ("+00:00"), which makes the comparison a
\* TypeError
get_chat_statistics(table, user_id, midnights, aware, failed) ==
    IF failed THEN StoreRaised
    ELSE LET chats == statistics_chats(table, user_id)
             total_chats == Len(chats)
             recent_chats == {i \in 1..Len(chats) : chats[i].created_at > midnights[i]}
         IN  IF chats # << >> /\ aware THEN StoreRaised
             ELSE StoreReturns(
                    [total_chats |-> total_chats,
                     total_users |-> Cardinality({chats[i].user_id : i \in 1..Len(chats)}),
                     recent_chats_24h |-> Cardinality(recent_chats),
                     average_response_length |->
                         IF total_chats > 0
                         THEN Fraction(sum_len(chats), total_chats)
                         ELSE Zero])

----------------------------------------------------------------------------
(* Service getters as the request handlers call them.  The handlers are    *)
(* coroutines without await that run on the one event-loop thread, so a    *)
(* getter call is not interleaved with another handler's.                  *)

TheInstance == 1

\* get_rag_service(): construct on first use; init_ok tells whether the
\* constructor's client initialisation (network calls) succeeds
get_service(global, init_ok) ==
    [raised |-> global = None /\ ~init_ok,
     global |-> IF global # None THEN global
                ELSE IF init_ok THEN TheInstance ELSE None]

----------------------------------------------------------------------------
(* The orchestrator: chat() (app/main.py) *)

TechnicalDifficulties ==
    <<"I apologize, but I'm currently experiencing technical difficulties. Please try again later.">>
SystemErrorMarker == <<"System Error: Unable to process request">>
GenericApology ==
    <<"I apologize, but I encountered an error while processing your request. Please try again.">>

NoRag == [kind |-> "none", matches |-> << >>]
NoReply == [kind |-> "none", status |-> 0, text |-> << >>]

\* The statements of the outer try (lines 207-251) that no inner try guards
\* are the log calls at lines 208 and 245, the construction of the response
\* at lines 247-251, and the bodies of the three inner except clauses (lines
\* 216-219, 227-228 and 242).  Their arguments are always well-formed, so
\* no request, passage, reply or database outcome makes one of them raise;
\* `fault` is an exception raised there all the same (a log filter that
\* raises), the "exception escaping the guarded stages" that the outer
\* except is written for.
UnexpectedError == <<"unexpected error">>

\* a variant of the retrieval block that falls back to the fallback prompt
RetrievalStageFallbackOnError(query, service_raised, rag, fault) ==
    LET r == IF service_raised THEN RagRaised("RAG service initialization failed")
             ELSE get_final_prompt_for_llm(query, rag)
    IN  IF r.raised /\ fault
        THEN [final_prompt |-> EmptyStr, source_context |-> EmptyStr,
              escapes |-> UnexpectedError]
        ELSE IF r.raised
        THEN [final_prompt |-> _create_fallback_prompt(query),
              source_context |-> EmptyStr, escapes |-> << >>]
        ELSE [final_prompt |-> r.final_prompt, source_context |-> r.source_context,
              escapes |-> << >>]

\* Step 1 (lines 210-219): the guarded retrieval block.  `escapes` is the
\* exception that leaves the block: "except Exception" catches every
\* exception of the try body, and an exception raised by the log call of
\* the except body (line 216) leaves it before final_prompt and
\* source_context are assigned
RetrievalStage(query, service_raised, rag, fault) ==
    LET r == IF service_raised THEN RagRaised("RAG service initialization failed")
             ELSE get_final_prompt_for_llm(query, rag)
    IN  IF r.raised /\ fault
        THEN [final_prompt |-> EmptyStr, source_context |-> EmptyStr,
              escapes |-> UnexpectedError]
        ELSE IF r.raised
        THEN [final_prompt |-> query, source_context |-> EmptyStr, escapes |-> << >>]
        ELSE [final_prompt |-> r.final_prompt, source_context |-> r.source_context,
              escapes |-> << >>]

\* a variant of the generation block that answers with the generic apology
GenerationStageGenericApology(has_api_url, reply, fault) ==
    LET r == query_huggingface_model(has_api_url, reply)
    IN  IF r.raised /\ fault
        THEN [bot_response |-> EmptyStr, escapes |-> UnexpectedError]
        ELSE IF r.raised
        THEN [bot_response |-> GenericApology, escapes |-> << >>]
        ELSE [bot_response |-> r.value, escapes |-> << >>]

\* a variant of the generation block without its except clause
GenerationStageUnguarded(has_api_url, reply, fault) ==
    LET r == query_huggingface_model(has_api_url, reply)
    IN  IF r.raised
        THEN [bot_response |-> EmptyStr, escapes |-> r.error]
        ELSE [bot_response |-> r.value, escapes |-> << >>]

\* Step 2 (lines 221-229): the guarded generation block; an exception
\* raised by the log call of the except body (line 227) leaves it before
\* bot_response is assigned
GenerationStage(has_api_url, reply, fault) ==
    LET r == query_huggingface_model(has_api_url, reply)
    IN  IF r.raised /\ fault
        THEN [bot_response |-> EmptyStr, escapes |-> UnexpectedError]
        ELSE IF r.raised
        THEN [bot_response |-> TechnicalDifficulties, escapes |-> << >>]
        ELSE [bot_response |-> r.value, escapes |-> << >>]

\* a variant of the persistence block without its except clause
PersistenceStageUnguarded(table, row, db, fault) ==
    LET r == save_chat_to_db(table, row, db)
    IN  [table |-> r.table,
         escapes |-> IF r.raised THEN <<"Failed to save chat data">> ELSE << >>]

\* Step 3 (lines 231-243) and the error path's save (lines 257-266): the
\* guarded persistence block; the exception of a failed save is swallowed,
\* and an exception raised by the log call of the except body (line 242)
\* leaves the block
PersistenceStage(table, row, db, fault) ==
    LET r == save_chat_to_db(table, row, db)
    IN  [table |-> r.table,
         escapes |-> IF r.raised /\ fault THEN UnexpectedError ELSE << >>]

\* ChatResponse(answer, source_context, success, error_message)
ChatResponse(answer, context, success, error_message) ==
    [answer |-> answer, source_context |-> context,
     success |-> success, error_message |-> error_message]

\* a variant that reports a substituted answer as a failure
DegradedChatResponse(answer, context) ==
    ChatResponse(answer, context, answer # TechnicalDifficulties, << >>)

\* lines 247-251
SuccessChatResponse(answer, context) == ChatResponse(answer, context, TRUE, << >>)

\* a variant of the error response that carries no error message
ErrorChatResponseWithoutMessage(e) ==
    ChatResponse(GenericApology, EmptyStr, FALSE, << >>)

\* lines 268-273
ErrorChatResponse(e) == ChatResponse(GenericApology, EmptyStr, FALSE, <<e>>)

\* a variant in which the turn never leaves the generation block (a request
\* sent without a deadline and never answered)
AfterBlockHalting(escapes, next) ==
    IF escapes # << >> THEN "OuterExcept"
    ELSE IF next = "Persisting" THEN "Halted" ELSE next

\* where the turn continues after a block of the outer try
AfterBlock(escapes, next) == IF escapes = << >> THEN next ELSE "OuterExcept"

\* Field(min_length=1, max_length=1000) of ChatRequest.question
MinQuestionLength == 1
MaxQuestionLength == 1000

\* a variant of the validator that returns the question as posted
validate_question_untrimmed(v) ==
    [raises |-> strip(v) = EmptyStr, value |-> v]

\* ChatRequest.validate_question
validate_question(v) ==
    [raises |-> strip(v) = EmptyStr, value |-> strip(v)]

\* ChatRequest(question = raw): the length constraints of the field are
\* checked on the posted string, then the validator runs on it
ChatRequest(raw) ==
    IF len(raw) < MinQuestionLength \/ len(raw) > MaxQuestionLength
    THEN [valid |-> FALSE, question |-> EmptyStr]
    ELSE LET v == validate_question(raw)
         IN  [valid |-> ~v.raises,
              question |-> IF v.raises THEN EmptyStr ELSE v.value]

\* lines 195-208: the handler is entered with a validated request; the log
\* call of line 208 is the first statement of the outer try, and an
\* exception it raises reaches the outer except before any stage has run
Chat(t, user, raw, fault) ==
    /\ pc[t] = "Start"
    /\ ChatRequest(raw).valid
    /\ raw_question' = [raw_question EXCEPT ![t] = raw]
    /\ current_user' = [current_user EXCEPT ![t] = user]
    /\ user_query' = [user_query EXCEPT ![t] = ChatRequest(raw).question]
    /\ exc' = [exc EXCEPT ![t] = IF fault THEN UnexpectedError ELSE << >>]
    /\ stage_out' = [stage_out EXCEPT ![t].escaped = fault]
    /\ pc' = [pc EXCEPT ![t] = AfterBlock(exc'[t], "Retrieving")]
    /\ UNCHANGED <<final_prompt, source_context, bot_response, response,
                   trace, llm_prompts, saves>>
    /\ UNCHANGED <<chat_history, service_vars, thread_vars>>
    /\ UNCHANGED client_vars
    /\ UNCHANGED store_vars

\* the request body fails validation: the framework answers 422 and chat()
\* is not called
RejectRequest(t, user, raw) ==
    /\ pc[t] = "Start"
    /\ ~ChatRequest(raw).valid
    /\ raw_question' = [raw_question EXCEPT ![t] = raw]
    /\ pc' = [pc EXCEPT ![t] = "Rejected"]
    /\ UNCHANGED <<current_user, user_query, final_prompt, source_context,
                   bot_response, exc, response, trace, stage_out, llm_prompts,
                   saves>>
    /\ UNCHANGED <<chat_history, service_vars, thread_vars>>
    /\ UNCHANGED client_vars
    /\ UNCHANGED store_vars

\* lines 210-219
Retrieve(t, init_ok, rag, fault) ==
    /\ pc[t] = "Retrieving"
    /\ LET svc == get_service(_rag_service, init_ok)
           r == RetrievalStage(user_query[t], svc.raised, rag, fault)
       IN  /\ _rag_service' = svc.global
           /\ constructed' = [constructed EXCEPT !.rag =
                                 IF _rag_service = None /\ ~svc.raised
                                 THEN @ + 1 ELSE @]
           /\ final_prompt' = [final_prompt EXCEPT ![t] = r.final_prompt]
           /\ source_context' = [source_context EXCEPT ![t] = r.source_context]
           /\ stage_out' = [stage_out EXCEPT
                               ![t].rag = IF svc.raised
                                          THEN [kind |-> "init_raises",
                                                matches |-> << >>]
                                          ELSE rag,
                               ![t].escaped = r.escapes # << >>]
           /\ exc' = [exc EXCEPT ![t] = r.escapes]
           /\ pc' = [pc EXCEPT ![t] = AfterBlock(r.escapes, "Generating")]
    /\ trace' = [trace EXCEPT ![t] = Append(@, "retrieval")]
    /\ UNCHANGED <<raw_question, current_user, user_query, bot_response, response,
                   llm_prompts, saves>>
    /\ UNCHANGED <<chat_history, _supabase_service, _instance, _initialized,
                   api_url>>
    /\ UNCHANGED <<th_pc, th_call, th_obj, th_ret, _lock, init_calls>>
    /\ UNCHANGED client_vars
    /\ UNCHANGED store_vars

\* lines 221-229; startup_event re-raises when get_llm_service() fails, so a
\* turn finds the generation client constructed and initialised
Generate(t, reply, fault) ==
    /\ pc[t] = "Generating"
    /\ LET g == GenerationStage(api_url, reply, fault)
       IN  /\ bot_response' = [bot_response EXCEPT ![t] = g.bot_response]
           /\ exc' = [exc EXCEPT ![t] = g.escapes]
           /\ pc' = [pc EXCEPT ![t] = AfterBlock(g.escapes, "Persisting")]
           /\ stage_out' = [stage_out EXCEPT ![t].reply = reply,
                                             ![t].escaped = g.escapes # << >>]
    /\ llm_prompts' = [llm_prompts EXCEPT ![t] = Append(@, final_prompt[t])]
    /\ trace' = [trace EXCEPT ![t] = Append(@, "generation")]
    /\ UNCHANGED <<raw_question, current_user, user_query, final_prompt, source_context,
                   response, saves>>
    /\ UNCHANGED <<chat_history, service_vars, thread_vars>>
    /\ UNCHANGED client_vars
    /\ UNCHANGED store_vars

\* lines 231-243; get_supabase_service() returns the store service that
\* startup_event constructed (the same create_client call as the one made
\* when app/dependencies.py is imported)
Persist(t, db, fault) ==
    /\ pc[t] = "Persisting"
    /\ LET row == ChatData(current_user[t], user_query[t], bot_response[t],
                           source_context[t])
           p == PersistenceStage(chat_history, row, db, fault)
       IN  /\ chat_history' = p.table
           /\ saves' = [saves EXCEPT ![t] = Append(@, [row |-> row, result |-> db])]
           /\ exc' = [exc EXCEPT ![t] = p.escapes]
           /\ pc' = [pc EXCEPT ![t] = AfterBlock(p.escapes, "Responding")]
           /\ stage_out' = [stage_out EXCEPT ![t].db = db,
                                             ![t].escaped = p.escapes # << >>]
    /\ trace' = [trace EXCEPT ![t] = Append(@, "persistence")]
    /\ UNCHANGED <<raw_question, current_user, user_query, final_prompt, source_context,
                   bot_response, response, llm_prompts>>
    /\ UNCHANGED <<service_vars, thread_vars>>
    /\ UNCHANGED client_vars
    /\ UNCHANGED store_vars

\* lines 245-251: the log call and the construction of the ChatResponse are
\* outside the three guarded blocks.  answer and source_context are always
\* str, which the response model accepts, so no question, passage or
\* generated text makes these statements raise; `fault` is an exception
\* raised there all the same (a log filter that raises, a patched response
\* model)
Respond(t, fault) ==
    /\ pc[t] = "Responding"
    /\ IF ~fault
       THEN /\ response' = [response EXCEPT ![t] =
                   <<SuccessChatResponse(bot_response[t], source_context[t])>>]
            /\ trace' = [trace EXCEPT ![t] = Append(@, "response")]
            /\ pc' = [pc EXCEPT ![t] = "Done"]
            /\ UNCHANGED <<exc, stage_out>>
       ELSE /\ exc' = [exc EXCEPT ![t] = UnexpectedError]
            /\ stage_out' = [stage_out EXCEPT ![t].escaped = TRUE]
            /\ pc' = [pc EXCEPT ![t] = "OuterExcept"]
            /\ UNCHANGED <<response, trace>>
    /\ UNCHANGED <<raw_question, current_user, user_query, final_prompt, source_context,
                   bot_response, llm_prompts, saves>>
    /\ UNCHANGED <<chat_history, service_vars, thread_vars>>
    /\ UNCHANGED client_vars
    /\ UNCHANGED store_vars

\* lines 253-273: the outer except, which is not part of the outer try
HandleError(t, db) ==
    /\ pc[t] = "OuterExcept"
    /\ LET row == ChatData(current_user[t], user_query[t], SystemErrorMarker,
                           EmptyStr)
           p == PersistenceStage(chat_history, row, db, FALSE)
       IN  /\ chat_history' = p.table
           /\ saves' = [saves EXCEPT ![t] = Append(@, [row |-> row, result |-> db])]
    /\ stage_out' = [stage_out EXCEPT ![t].error_db = db]
    /\ response' = [response EXCEPT ![t] = <<ErrorChatResponse(exc[t])>>]
    /\ trace' = [trace EXCEPT ![t] = Append(Append(@, "error_persistence"), "response")]
    /\ pc' = [pc EXCEPT ![t] = "Done"]
    /\ UNCHANGED <<raw_question, current_user, user_query, final_prompt, source_context,
                   bot_response, exc, llm_prompts>>
    /\ UNCHANGED <<service_vars, thread_vars>>
    /\ UNCHANGED client_vars
    /\ UNCHANGED store_vars

----------------------------------------------------------------------------
(* First use of the service getters by several threads.  A thread switch   *)
(* can happen between any two bytecodes, so every read and write of a      *)
(* shared name is a step of its own.                                       *)

\* a thread calls get_llm_service(), get_rag_service() or get_supabase_service()
ThreadCall(th, getter) ==
    /\ th_pc[th] = "idle"
    /\ th_call' = [th_call EXCEPT ![th] = getter]
    /\ th_pc' = [th_pc EXCEPT ![th] = IF getter = "llm" THEN "new_check" ELSE "get_check"]
    /\ UNCHANGED <<th_obj, th_ret, _lock, constructed, init_calls>>
    /\ UNCHANGED <<turn_vars, chat_history, service_vars>>
    /\ UNCHANGED client_vars
    /\ UNCHANGED store_vars

\* ---- LLMService.__new__ (llm_service.py lines 26-33) ----

\* line 27: the unlocked check; line 33 when an instance exists
NewCheck(th) ==
    /\ th_pc[th] = "new_check"
    /\ IF _instance = None
       THEN /\ th_pc' = [th_pc EXCEPT ![th] = "new_lock"]
            /\ UNCHANGED th_obj
       ELSE /\ th_pc' = [th_pc EXCEPT ![th] = "init_check"]
            /\ th_obj' = [th_obj EXCEPT ![th] = _instance]
    /\ UNCHANGED <<th_call, th_ret, _lock, constructed, init_calls>>
    /\ UNCHANGED <<turn_vars, chat_history, service_vars>>
    /\ UNCHANGED client_vars
    /\ UNCHANGED store_vars

\* lines 28-30: acquire the lock, check again
NewLock(th) ==
    /\ th_pc[th] = "new_lock"
    /\ _lock = 0
    /\ _lock' = th
    /\ th_pc' = [th_pc EXCEPT ![th] =
                    IF _instance = None THEN "new_create" ELSE "new_unlock"]
    /\ UNCHANGED <<th_call, th_obj, th_ret, constructed, init_calls>>
    /\ UNCHANGED <<turn_vars, chat_history, service_vars>>
    /\ UNCHANGED client_vars
    /\ UNCHANGED store_vars

\* line 31: cls._instance = super().__new__(cls); the object has no attribute yet
NewCreate(th) ==
    /\ th_pc[th] = "new_create"
    /\ _instance' = constructed.llm + 1
    /\ _initialized' = "absent"
    /\ api_url' = FALSE
    /\ constructed' = [constructed EXCEPT !.llm = @ + 1]
    /\ th_pc' = [th_pc EXCEPT ![th] = "new_setflag"]
    /\ UNCHANGED <<th_call, th_obj, th_ret, _lock, init_calls>>
    /\ UNCHANGED <<turn_vars, chat_history, _rag_service, _supabase_service>>
    /\ UNCHANGED client_vars
    /\ UNCHANGED store_vars

\* line 32: cls._instance._initialized = False
NewSetFlag(th) ==
    /\ th_pc[th] = "new_setflag"
    /\ _initialized' = "False"
    /\ th_pc' = [th_pc EXCEPT ![th] = "new_unlock"]
    /\ UNCHANGED <<th_call, th_obj, th_ret, _lock, constructed, init_calls>>
    /\ UNCHANGED <<turn_vars, chat_history, _rag_service, _supabase_service,
                   _instance, api_url>>
    /\ UNCHANGED client_vars
    /\ UNCHANGED store_vars

\* leaving the with block, line 33: return cls._instance
NewUnlock(th) ==
    /\ th_pc[th] = "new_unlock"
    /\ _lock' = 0
    /\ th_obj' = [th_obj EXCEPT ![th] = _instance]
    /\ th_pc' = [th_pc EXCEPT ![th] = "init_check"]
    /\ UNCHANGED <<th_call, th_ret, constructed, init_calls>>
    /\ UNCHANGED <<turn_vars, chat_history, service_vars>>
    /\ UNCHANGED client_vars
    /\ UNCHANGED store_vars

\* ---- LLMService.__init__ (lines 35-39), run on every LLMService() ----

\* line 37
InitCheck(th) ==
    /\ th_pc[th] = "init_check"
    /\ IF _initialized # "True"
       THEN /\ th_pc' = [th_pc EXCEPT ![th] = "init_client"]
            /\ UNCHANGED th_ret
       ELSE /\ th_pc' = [th_pc EXCEPT ![th] = "returned"]
            /\ th_ret' = [th_ret EXCEPT ![th] = th_obj[th]]
    /\ UNCHANGED <<th_call, th_obj, _lock, constructed, init_calls>>
    /\ UNCHANGED <<turn_vars, chat_history, service_vars>>
    /\ UNCHANGED client_vars
    /\ UNCHANGED store_vars

\* a variant of __init__ that sets the flag although _initialize_client raised
InitClientMarkingFailure(th, ok) ==
    /\ th_pc[th] = "init_client"
    /\ IF ok
       THEN /\ api_url' = TRUE
            /\ init_calls' = init_calls + 1
            /\ th_pc' = [th_pc EXCEPT ![th] = "init_mark"]
            /\ UNCHANGED _initialized
       ELSE /\ UNCHANGED <<api_url, init_calls>>
            /\ _initialized' = "True"
            /\ th_pc' = [th_pc EXCEPT ![th] = "raised"]
    /\ UNCHANGED <<th_call, th_obj, th_ret, _lock, constructed>>
    /\ UNCHANGED <<turn_vars, chat_history, _rag_service, _supabase_service,
                   _instance>>
    /\ UNCHANGED client_vars
    /\ UNCHANGED store_vars

\* line 38: self._initialize_client() (lines 41-87): sets api_url and the
\* session, or raises RuntimeError
InitClient(th, ok) ==
    /\ th_pc[th] = "init_client"
    /\ IF ok
       THEN /\ api_url' = TRUE
            /\ init_calls' = init_calls + 1
            /\ th_pc' = [th_pc EXCEPT ![th] = "init_mark"]
       ELSE /\ UNCHANGED <<api_url, init_calls>>
            /\ th_pc' = [th_pc EXCEPT ![th] = "raised"]
    /\ UNCHANGED <<th_call, th_obj, th_ret, _lock, constructed>>
    /\ UNCHANGED <<turn_vars, chat_history, _rag_service, _supabase_service,
                   _instance, _initialized>>
    /\ UNCHANGED client_vars
    /\ UNCHANGED store_vars

\* line 39: self._initialized = True; LLMService() returns the instance
InitMark(th) ==
    /\ th_pc[th] = "init_mark"
    /\ _initialized' = "True"
    /\ th_ret' = [th_ret EXCEPT ![th] = th_obj[th]]
    /\ th_pc' = [th_pc EXCEPT ![th] = "returned"]
    /\ UNCHANGED <<th_call, th_obj, _lock, constructed, init_calls>>
    /\ UNCHANGED <<turn_vars, chat_history, _rag_service, _supabase_service,
                   _instance, api_url>>
    /\ UNCHANGED client_vars
    /\ UNCHANGED store_vars

\* ---- get_rag_service() (rag_service.py lines 185-188) and ----
\* ---- get_supabase_service() (supabase_service.py lines 223-226) ----

GlobalOf(getter) == IF getter = "rag" THEN _rag_service ELSE _supabase_service

\* if _rag_service is None:
GetCheck(th) ==
    /\ th_pc[th] = "get_check"
    /\ th_pc' = [th_pc EXCEPT ![th] =
                    IF GlobalOf(th_call[th]) = None THEN "get_construct" ELSE "get_return"]
    /\ UNCHANGED <<th_call, th_obj, th_ret, _lock, constructed, init_calls>>
    /\ UNCHANGED <<turn_vars, chat_history, service_vars>>
    /\ UNCHANGED client_vars
    /\ UNCHANGED store_vars

\* RAGService() / SupabaseService(): the constructor initialises the clients
\* (network calls) and returns a new object, or raises
GetConstruct(th, ok) ==
    /\ th_pc[th] = "get_construct"
    /\ IF ok
       THEN /\ constructed' = [constructed EXCEPT ![th_call[th]] = @ + 1]
            /\ th_obj' = [th_obj EXCEPT ![th] = constructed[th_call[th]] + 1]
            /\ th_pc' = [th_pc EXCEPT ![th] = "get_assign"]
       ELSE /\ th_pc' = [th_pc EXCEPT ![th] = "raised"]
            /\ UNCHANGED <<constructed, th_obj>>
    /\ UNCHANGED <<th_call, th_ret, _lock, init_calls>>
    /\ UNCHANGED <<turn_vars, chat_history, service_vars>>
    /\ UNCHANGED client_vars
    /\ UNCHANGED store_vars

\* _rag_service = <the new object>
GetAssign(th) ==
    /\ th_pc[th] = "get_assign"
    /\ IF th_call[th] = "rag"
       THEN _rag_service' = th_obj[th] /\ UNCHANGED _supabase_service
       ELSE _supabase_service' = th_obj[th] /\ UNCHANGED _rag_service
    /\ th_pc' = [th_pc EXCEPT ![th] = "get_return"]
    /\ UNCHANGED <<th_call, th_obj, th_ret, _lock, constructed, init_calls>>
    /\ UNCHANGED <<turn_vars, chat_history, _instance, _initialized, api_url>>
    /\ UNCHANGED client_vars
    /\ UNCHANGED store_vars

\* return _rag_service (the global is read again)
GetReturn(th) ==
    /\ th_pc[th] = "get_return"
    /\ th_ret' = [th_ret EXCEPT ![th] = GlobalOf(th_call[th])]
    /\ th_pc' = [th_pc EXCEPT ![th] = "returned"]
    /\ UNCHANGED <<th_call, th_obj, _lock, constructed, init_calls>>
    /\ UNCHANGED <<turn_vars, chat_history, service_vars>>
    /\ UNCHANGED client_vars
    /\ UNCHANGED store_vars

----------------------------------------------------------------------------
(* The generation client called on its own, on an initialised service:     *)
(* client_reply is what the endpoint does, client_out collects the result  *)
(* of each call made with it.                                              *)

Record(name, result) ==
    [n \in DOMAIN client_out \cup {name} |->
        IF n = name THEN result ELSE client_out[n]]

\* the reply with the same generated text in the other of the two shapes
OtherShape(reply) ==
    [reply EXCEPT !.kind = IF reply.kind = "list" THEN "dict_text" ELSE "list"]

\* the first caller that obtained the instance uses it:
\* get_llm_service().get_response(prompt), the endpoint answering `reply`
ThreadGetResponse(th, reply) ==
    /\ th_pc[th] = "returned"
    /\ th_call[th] = "llm"
    /\ "after_construction" \notin DOMAIN client_out
    /\ client_out' = Record("after_construction", get_response(api_url, reply))
    /\ UNCHANGED <<client_reply, turn_vars, chat_history, service_vars, thread_vars>>
    /\ UNCHANGED store_vars

\* get_response(prompt) with the endpoint answering client_reply
CallGetResponse ==
    /\ "get_response" \notin DOMAIN client_out
    /\ client_out' = Record("get_response", get_response(TRUE, client_reply))
    /\ UNCHANGED <<client_reply, turn_vars, chat_history, service_vars, thread_vars>>
    /\ UNCHANGED store_vars

\* get_response(prompt) with the same generated text in the other shape
CallGetResponseOtherShape ==
    /\ client_reply.kind \in {"list", "dict_text"}
    /\ "other_shape" \notin DOMAIN client_out
    /\ client_out' = Record("other_shape",
                            get_response(TRUE, OtherShape(client_reply)))
    /\ UNCHANGED <<client_reply, turn_vars, chat_history, service_vars, thread_vars>>
    /\ UNCHANGED store_vars

\* query_huggingface_model(prompt, hf_api_token = token) with the endpoint
\* answering client_reply
CallQueryWithOverrides ==
    /\ "with_overrides" \notin DOMAIN client_out
    /\ client_out' = Record("with_overrides",
                            query_huggingface_model_with_overrides(client_reply))
    /\ UNCHANGED <<client_reply, turn_vars, chat_history, service_vars, thread_vars>>
    /\ UNCHANGED store_vars

\* the same call with the same generated text in the other shape
CallQueryWithOverridesOtherShape ==
    /\ client_reply.kind \in {"list", "dict_text"}
    /\ "with_overrides_other_shape" \notin DOMAIN client_out
    /\ client_out' = Record("with_overrides_other_shape",
                            query_huggingface_model_with_overrides(OtherShape(client_reply)))
    /\ UNCHANGED <<client_reply, turn_vars, chat_history, service_vars, thread_vars>>
    /\ UNCHANGED store_vars

\* _clean_response(text) on the text of client_reply
CallCleanResponse ==
    /\ "clean" \notin DOMAIN client_out
    /\ client_out' = Record("clean", LlmReturns(_clean_response(client_reply.text)))
    /\ UNCHANGED <<client_reply, turn_vars, chat_history, service_vars, thread_vars>>
    /\ UNCHANGED store_vars

\* _clean_response applied to the result of the previous cleaning
CallCleanResponseAgain ==
    /\ "clean" \in DOMAIN client_out
    /\ "clean_again" \notin DOMAIN client_out
    /\ client_out' = Record("clean_again",
                            LlmReturns(_clean_response(client_out["clean"].value)))
    /\ UNCHANGED <<client_reply, turn_vars, chat_history, service_vars, thread_vars>>
    /\ UNCHANGED store_vars

----------------------------------------------------------------------------
(* The store service called on its own: store_out is the last call with    *)
(* its arguments, the table it saw and its result.                         *)

\* save_chat_to_db(user_id, user_query, bot_response, context), the clock
\* reading `now`: any reading, whatever the rows already stored carry (the
\* insert of a caller that read the clock earlier can arrive later, and
\* the wall clock can be set back)
SaveChat(user, question, answer, context, now, db) ==
    /\ Len(chat_history) < MaxRows
    /\ LET r == save_chat_to_db(chat_history,
                                ChatDataAt(user, question, answer, context, now), db)
       IN  /\ chat_history' = r.table
           /\ store_out' = [op |-> "save", db |-> db, raised |-> r.raised,
                            table |-> chat_history]
    /\ UNCHANGED <<timestamptz, turn_vars, service_vars, thread_vars, client_vars>>

\* get_user_chat_history(user_id, limit, offset)
ReadHistory(user, limit, offset, failed) ==
    /\ \E order \in Orders(eq_user_id(chat_history, user)) :
           store_out' = [op |-> "history", user_id |-> user, limit |-> limit,
                         offset |-> offset, table |-> chat_history,
                         failed |-> failed,
                         result |-> get_user_chat_history(chat_history, user, limit,
                                                          offset, order, failed)]
    /\ UNCHANGED <<chat_history, timestamptz, turn_vars, service_vars,
                   thread_vars, client_vars>>

\* utcnow() at 00:00: before every row, or one of the clock readings
Midnights == 0..MaxTime
\* the readings of midnight during a statistics call over n rows, one per
\* row: the reading changes at most once while the call runs, after the
\* k-th row (the day ends, or the wall clock is set back); one sequence is
\* enough when the call raises before it uses them
MidnightReadings(n, unused) ==
    IF unused THEN {[i \in 1..n |-> 0]}
    ELSE {[i \in 1..n |-> IF i <= k THEN m[1] ELSE m[2]] :
             k \in 0..n, m \in Midnights \X Midnights}

\* get_chat_statistics(user_id)
ReadStatistics(user, failed) ==
    /\ \E midnights \in MidnightReadings(Len(statistics_chats(chat_history, user)),
                                          failed \/ timestamptz) :
           store_out' = [op |-> "statistics", user_id |-> user, table |-> chat_history,
                         failed |-> failed,
                         result |-> get_chat_statistics(chat_history, user, midnights,
                                                        timestamptz, failed)]
    /\ UNCHANGED <<chat_history, timestamptz, turn_vars, service_vars,
                   thread_vars, client_vars>>

----------------------------------------------------------------------------
(* Inputs *)

Users == {"user-1", "user-2"}
Q1 == <<"What is EPF?">>
Q2 == <<"How do I withdraw my EPF balance?">>
Questions == {Q1, Q2}
Requests == [user_id : Users, question : Questions]

P1 == <<"EPF is a retirement savings scheme", ".">>
P2 == <<"Withdrawal needs five years of service", ".">>
Matches == {[text |-> << >>], [text |-> <<EmptyStr>>], [text |-> <<P1>>], [text |-> <<P2>>]}
MatchLists == UNION {[1..n -> Matches] : n \in 0..MaxMatches}
RagOutcomes ==
    {[kind |-> k, matches |-> << >>] : k \in {"embed_raises", "query_raises"}}
        \cup {[kind |-> "matches", matches |-> m] : m \in MatchLists}

T1 == <<"Five years", ".">>
T2 == <<" ", "Answer:", " ", "Yes", ".", " ", "But thr">>
Reply(kind, status, text) == [kind |-> kind, status |-> status, text |-> text]
\* the replies to the call made after construction: one that fails, one
\* that answers
FirstUseReplies == {Reply("timeout", 0, EmptyStr), Reply("list", 200, T1)}
ChatReplies ==
    {Reply("timeout", 0, EmptyStr), Reply("connection_error", 0, EmptyStr),
     Reply("http_error", 503, EmptyStr), Reply("invalid_json", 200, EmptyStr),
     Reply("dict_error", 200, <<"Internal error">>),
     Reply("dict_error_text", 200, T1), Reply("malformed", 200, EmptyStr),
     Reply("list", 200, T1), Reply("list", 200, EmptyStr),
     Reply("dict_text", 200, T2)}
DbOutcomes == {"inserted", "no_data", "raises"}

\* the reduced inputs of the runs with several turns
ConcurrentRequests == {[user_id |-> "user-1", question |-> Q1],
                       [user_id |-> "user-2", question |-> Q2]}
ConcurrentRagOutcomes ==
    {[kind |-> "query_raises", matches |-> << >>],
     [kind |-> "matches", matches |-> <<[text |-> <<P1>>]>>]}
ConcurrentReplies == {Reply("timeout", 0, EmptyStr), Reply("list", 200, T1)}
ConcurrentDbOutcomes == {"inserted", "raises"}

Getters == {"llm", "rag", "supabase"}

\* questions as they are posted: empty, blank, trimmed, padded, and around the
\* length limit (998 + 2 = 1000 characters, 998 + 3 = 1001)
LongWord == "<a word of 998 characters>"
RawQuestions ==
    {EmptyStr, <<" ">>, <<" ", "\n", " ">>,
     Q1, <<" ">> \o Q1 \o <<"\n">>, <<"\n", " ">> \o Q2,
     <<LongWord>>, <<LongWord, "a", "b">>, <<LongWord, "a", "b", "c">>,
     <<" ", LongWord, " ">>, <<" ", " ", LongWord, " ">>}

\* the interactions saved when the store is called on its own
StoredInteractions ==
    {[user_id |-> "user-1", answer |-> T1], [user_id |-> "user-2", answer |-> <<"Yes">>]}
Timestamps == 1..MaxTime
Limits == {1, 2}
\* the last offset is past the end of every table
Offsets == {0, 1, MaxRows}
\* user_id of a statistics call: None, or a user
OptionalUsers == {<< >>} \cup {<<u>> : u \in Users}

\* generated texts: every string of at most MaxTextLen of these tokens, and
\* two longer ones
TextTokens == {" ", ".", "!", "Answer:", "Fact"}
T3 == <<"Fact one", ".", " ", "Fact two", ".", " ", "Fact thr">>
Texts == UNION {[1..n -> TextTokens] : n \in 0..MaxTextLen} \cup {T2, T3}

\* error messages of a 2xx body {"error": message}
ErrorMessages ==
    {<<"Model m ", "is currently loading">>, <<"Model m ", "Is Currently Loading">>,
     <<"You are ", "rate limited">>, <<"Internal error">>}
HttpStatuses == {401, 404, 429, 500, 503}

\* what the endpoint can do with a request of the generation client
ClientReplies ==
    {Reply("timeout", 0, EmptyStr), Reply("connection_error", 0, EmptyStr),
     Reply("invalid_json", 200, EmptyStr), Reply("other", 200, EmptyStr),
     Reply("malformed", 200, EmptyStr),
     Reply("dict_error_text", 200, T1), Reply("dict_error_text", 200, EmptyStr)}
        \cup {Reply("http_error", st, EmptyStr) : st \in HttpStatuses}
        \cup {Reply("dict_error", 200, msg) : msg \in ErrorMessages}
        \cup {Reply(shape, 200, x) : shape \in {"list", "dict_text"}, x \in Texts}

----------------------------------------------------------------------------
(* Specifications *)

NoStageOut == [rag |-> NoRag, reply |-> NoReply, db |-> "none",
               error_db |-> "none", escaped |-> FALSE]

\* turns T have not started
InitTurns(T) ==
    /\ pc = [t \in T |-> "Start"]
    /\ raw_question = [t \in T |-> EmptyStr]
    /\ current_user = [t \in T |-> ""]
    /\ user_query = [t \in T |-> EmptyStr]
    /\ final_prompt = [t \in T |-> EmptyStr]
    /\ source_context = [t \in T |-> EmptyStr]
    /\ bot_response = [t \in T |-> EmptyStr]
    /\ exc = [t \in T |-> << >>]
    /\ response = [t \in T |-> << >>]
    /\ trace = [t \in T |-> << >>]
    /\ stage_out = [t \in T |-> NoStageOut]
    /\ llm_prompts = [t \in T |-> << >>]
    /\ saves = [t \in T |-> << >>]
    /\ chat_history = << >>

\* threads H have not called a getter
InitThreads(H) ==
    /\ th_pc = [th \in H |-> "idle"]
    /\ th_call = [th \in H |-> "none"]
    /\ th_obj = [th \in H |-> None]
    /\ th_ret = [th \in H |-> None]
    /\ _lock = 0

\* the services after startup_event (main.py lines 64-120): the generation
\* client is initialised (startup fails otherwise) and the store service is
\* constructed; the construction of the retrieval service, which calls the
\* index over the network, may have failed, which leaves its global None
InitStarted(rag_options) ==
    /\ _rag_service \in rag_options
    /\ _supabase_service = TheInstance
    /\ _instance = TheInstance
    /\ _initialized = "True"
    /\ api_url = TRUE
    /\ constructed = [llm |-> 1, supabase |-> 1,
                      rag |-> IF _rag_service = None THEN 0 ELSE 1]
    /\ init_calls = 1

\* the process before any service is used
InitFresh ==
    /\ _rag_service = None
    /\ _supabase_service = None
    /\ _instance = None
    /\ _initialized = "absent"
    /\ api_url = FALSE
    /\ constructed = [llm |-> 0, rag |-> 0, supabase |-> 0]
    /\ init_calls = 0

\* the store service has not been called on its own
NoStoreCall == [op |-> "none"]
InitStoreIdle(column_types) ==
    /\ store_out = NoStoreCall
    /\ timestamptz \in column_types

\* the generation client has not been called on its own
InitClientIdle(replies) ==
    /\ client_reply \in replies
    /\ client_out = << >>

\* ---- one chat turn: every stage outcome, and an exception at every ----
\* ---- unguarded statement of the outer try                           ----
Init ==
    /\ InitStoreIdle({TRUE})
    /\ InitClientIdle({NoReply})
    /\ InitTurns({1})
    /\ InitThreads({})
    /\ InitStarted({None, TheInstance})

Next ==
    \/ \E t \in DOMAIN pc, r \in Requests, fault \in BOOLEAN :
           Chat(t, r.user_id, r.question, fault)
    \/ \E t \in DOMAIN pc, ok \in BOOLEAN, rag \in RagOutcomes, fault \in BOOLEAN :
           Retrieve(t, ok, rag, fault)
    \/ \E t \in DOMAIN pc, reply \in ChatReplies, fault \in BOOLEAN :
           Generate(t, reply, fault)
    \/ \E t \in DOMAIN pc, db \in DbOutcomes, fault \in BOOLEAN : Persist(t, db, fault)
    \/ \E t \in DOMAIN pc, fault \in BOOLEAN : Respond(t, fault)
    \/ \E t \in DOMAIN pc, db \in DbOutcomes : HandleError(t, db)

Spec == Init /\ [][Next]_vars

\* the same turn when the handler keeps running: chat() is a coroutine that,
\* once started, runs each of its statements, and every call it makes to a
\* collaborator returns or raises (requests.post is given timeout=30)
SpecLive == Init /\ [][Next]_vars /\ WF_vars(Next)

\* ---- one chat turn whose three stages all run: the log calls of lines ----
\* ---- 208, 216, 227 and 242 return, and an exception can escape only    ----
\* ---- from the statements after the persistence block                  ----
NextStages ==
    \/ \E t \in DOMAIN pc, r \in Requests : Chat(t, r.user_id, r.question, FALSE)
    \/ \E t \in DOMAIN pc, ok \in BOOLEAN, rag \in RagOutcomes :
           Retrieve(t, ok, rag, FALSE)
    \/ \E t \in DOMAIN pc, reply \in ChatReplies : Generate(t, reply, FALSE)
    \/ \E t \in DOMAIN pc, db \in DbOutcomes : Persist(t, db, FALSE)
    \/ \E t \in DOMAIN pc, fault \in BOOLEAN : Respond(t, fault)
    \/ \E t \in DOMAIN pc, db \in DbOutcomes : HandleError(t, db)

SpecStages == Init /\ [][NextStages]_vars

\* ---- several chat turns in flight, interleaved stage by stage ----
InitConcurrent ==
    /\ InitStoreIdle({TRUE})
    /\ InitClientIdle({NoReply})
    /\ InitTurns(1..NumTurns)
    /\ InitThreads({})
    /\ InitStarted({TheInstance})

NextConcurrent ==
    \/ \E t \in DOMAIN pc, r \in ConcurrentRequests, fault \in BOOLEAN :
           Chat(t, r.user_id, r.question, fault)
    \/ \E t \in DOMAIN pc, rag \in ConcurrentRagOutcomes, fault \in BOOLEAN :
           Retrieve(t, TRUE, rag, fault)
    \/ \E t \in DOMAIN pc, reply \in ConcurrentReplies, fault \in BOOLEAN :
           Generate(t, reply, fault)
    \/ \E t \in DOMAIN pc, db \in ConcurrentDbOutcomes, fault \in BOOLEAN :
           Persist(t, db, fault)
    \/ \E t \in DOMAIN pc, fault \in BOOLEAN : Respond(t, fault)
    \/ \E t \in DOMAIN pc : HandleError(t, "inserted")

SpecConcurrent == InitConcurrent /\ [][NextConcurrent]_vars

\* ---- several threads making the first use of the service getters ----
InitFirstUse ==
    /\ InitStoreIdle({TRUE})
    /\ InitClientIdle({NoReply})
    /\ InitTurns({})
    /\ InitThreads(1..NumThreads)
    /\ InitFresh

NextFirstUse ==
    \/ \E th \in DOMAIN th_pc, g \in Getters : ThreadCall(th, g)
    \/ \E th \in DOMAIN th_pc : NewCheck(th)
    \/ \E th \in DOMAIN th_pc : NewLock(th)
    \/ \E th \in DOMAIN th_pc : NewCreate(th)
    \/ \E th \in DOMAIN th_pc : NewSetFlag(th)
    \/ \E th \in DOMAIN th_pc : NewUnlock(th)
    \/ \E th \in DOMAIN th_pc : InitCheck(th)
    \/ \E th \in DOMAIN th_pc, ok \in BOOLEAN : InitClient(th, ok)
    \/ \E th \in DOMAIN th_pc : InitMark(th)
    \/ \E th \in DOMAIN th_pc, reply \in FirstUseReplies : ThreadGetResponse(th, reply)
    \/ \E th \in DOMAIN th_pc : GetCheck(th)
    \/ \E th \in DOMAIN th_pc, ok \in BOOLEAN : GetConstruct(th, ok)
    \/ \E th \in DOMAIN th_pc : GetAssign(th)
    \/ \E th \in DOMAIN th_pc : GetReturn(th)

SpecFirstUse == InitFirstUse /\ [][NextFirstUse]_vars

\* ---- one posted request, valid or not, and its turn ----
InitRequest ==
    /\ InitStoreIdle({TRUE})
    /\ InitClientIdle({NoReply})
    /\ InitTurns({1})
    /\ InitThreads({})
    /\ InitStarted({TheInstance})

NextRequest ==
    \/ \E t \in DOMAIN pc, u \in Users, raw \in RawQuestions, fault \in BOOLEAN :
           Chat(t, u, raw, fault)
    \/ \E t \in DOMAIN pc, u \in Users, raw \in RawQuestions : RejectRequest(t, u, raw)
    \/ \E t \in DOMAIN pc, rag \in ConcurrentRagOutcomes, fault \in BOOLEAN :
           Retrieve(t, TRUE, rag, fault)
    \/ \E t \in DOMAIN pc, reply \in ConcurrentReplies, fault \in BOOLEAN :
           Generate(t, reply, fault)
    \/ \E t \in DOMAIN pc, db \in ConcurrentDbOutcomes, fault \in BOOLEAN :
           Persist(t, db, fault)
    \/ \E t \in DOMAIN pc, fault \in BOOLEAN : Respond(t, fault)
    \/ \E t \in DOMAIN pc : HandleError(t, "inserted")

SpecRequest == InitRequest /\ [][NextRequest]_vars

\* ---- the store service: saves and reads in any order ----
InitStore ==
    /\ InitStoreIdle(BOOLEAN)
    /\ InitClientIdle({NoReply})
    /\ InitTurns({})
    /\ InitThreads({})
    /\ InitStarted({TheInstance})

NextStore ==
    \/ \E i \in StoredInteractions, now \in Timestamps, db \in DbOutcomes :
           SaveChat(i.user_id, Q1, i.answer, EmptyStr, now, db)
    \/ \E u \in Users, failed \in BOOLEAN :
           \E limit \in IF failed THEN {1} ELSE Limits,
              offset \in IF failed THEN {0} ELSE Offsets :
               ReadHistory(u, limit, offset, failed)
    \/ \E u \in OptionalUsers, failed \in BOOLEAN : ReadStatistics(u, failed)

SpecStore == InitStore /\ [][NextStore]_vars

\* ---- the generation client on one reply of the endpoint ----
InitGeneration ==
    /\ InitStoreIdle({TRUE})
    /\ InitClientIdle(ClientReplies)
    /\ InitTurns({})
    /\ InitThreads({})
    /\ InitStarted({TheInstance})

NextGeneration ==
    \/ CallGetResponse
    \/ CallGetResponseOtherShape
    \/ CallQueryWithOverrides
    \/ CallQueryWithOverridesOtherShape
    \/ CallCleanResponse
    \/ CallCleanResponseAgain

SpecGeneration == InitGeneration /\ [][NextGeneration]_vars

----------------------------------------------------------------------------
(* Properties of the chat turn *)

Turns == DOMAIN pc
Threads == DOMAIN th_pc

Finished(t) == pc[t] = "Done"
\* an exception raised outside the three guarded blocks reached the outer except
Escaped(t) == stage_out[t].escaped
Generated(t) == stage_out[t].reply.kind # "none"
Persisted(t) == stage_out[t].db # "none"

\* what the collaborators did, read off their outcome alone
RetrievalRaised(t) ==
    stage_out[t].rag.kind \in {"init_raises", "embed_raises", "query_raises"}
NoPassages(t) ==
    /\ stage_out[t].rag.kind = "matches"
    /\ \A i \in 1..Len(stage_out[t].rag.matches) :
           stage_out[t].rag.matches[i].text \in {<< >>, <<EmptyStr>>}
ErrorReplyKinds ==
    {"timeout", "connection_error", "http_error", "invalid_json", "dict_error",
     "dict_error_text", "malformed"}
GenerationRaised(t) == stage_out[t].reply.kind \in ErrorReplyKinds

\* C1: every finished chat turn has made exactly one save_chat_to_db call,
\* whatever the stage outcomes and also when an exception escaped the
\* guarded stages.
C1_ExactlyOneSaveAttempt ==
    \A t \in Turns : Finished(t) => Len(saves[t]) = 1

\* C2: a finished turn has returned a response (it never raises to its
\* caller), and the response has success = false exactly when an exception
\* escaped the three guarded stages; stage failures alone give success = true.
C2_SuccessUnlessEscaped ==
    \A t \in Turns :
        /\ pc[t] \in {"Start", "Retrieving", "Generating", "Persisting",
                      "Responding", "OuterExcept", "Done"}
        /\ pc[t] = "OuterExcept" => Escaped(t)
        /\ Finished(t) =>
              /\ Len(response[t]) = 1
              /\ response[t][1].success = ~Escaped(t)
        /\ ~Finished(t) => response[t] = << >>

C2_Witness ==
    \E t \in Turns :
        /\ Finished(t) /\ ~Escaped(t)
        /\ RetrievalRaised(t) /\ GenerationRaised(t) /\ stage_out[t].db = "raises"
        /\ response[t][1].success

\* C3: when retrieval raises, generation is still invoked, with exactly the
\* raw user question as prompt, and the turn answers success = true with
\* source_context = "".
C3_RetrievalFailureUsesRawQuestion ==
    \A t \in Turns :
        RetrievalRaised(t) =>
            /\ pc[t] \notin {"Start", "Retrieving", "Generating"}
                   => llm_prompts[t] = <<user_query[t]>>
            /\ (Finished(t) /\ ~Escaped(t)) =>
                   /\ response[t][1].success
                   /\ response[t][1].source_context = EmptyStr

C3_Witness ==
    \E t \in Turns :
        /\ RetrievalRaised(t) /\ Finished(t) /\ ~Escaped(t)
        /\ llm_prompts[t] = <<user_query[t]>>
        /\ response[t][1].source_context = EmptyStr

\* C4: when generation raises (a timeout included), the turn continues: the
\* save is made with the technical-difficulties apology as the answer, and
\* the response has success = true and that apology as its answer.
C4_GenerationFailureGivesApology ==
    \A t \in Turns :
        GenerationRaised(t) =>
            /\ pc[t] \in {"Responding", "Done"} =>
                   /\ Len(saves[t]) >= 1
                   /\ saves[t][1].row.bot_response = TechnicalDifficulties
            /\ (Finished(t) /\ ~Escaped(t)) =>
                   /\ response[t][1].success
                   /\ response[t][1].answer = TechnicalDifficulties

C4_Witness ==
    \E t \in Turns :
        /\ stage_out[t].reply.kind = "timeout"
        /\ Finished(t) /\ ~Escaped(t)
        /\ response[t][1].answer = TechnicalDifficulties
        /\ saves[t][1].row.bot_response = TechnicalDifficulties

\* the inputs of a turn other than the outcome of its save
SameInputsButSave(t, u) ==
    /\ current_user[t] = current_user[u]
    /\ user_query[t] = user_query[u]
    /\ stage_out[t].rag = stage_out[u].rag
    /\ stage_out[t].reply = stage_out[u].reply
    /\ stage_out[t].escaped = stage_out[u].escaped

\* C5: two finished turns with the same request, the same retrieval outcome
\* and the same generation outcome return identical responses, whatever
\* their saves did.
C5_ResponseIndependentOfSave ==
    \A t, u \in Turns :
        (Finished(t) /\ Finished(u) /\ SameInputsButSave(t, u))
            => response[t] = response[u]

C5_Witness ==
    \E t, u \in Turns :
        /\ Finished(t) /\ Finished(u) /\ SameInputsButSave(t, u)
        /\ ~Escaped(t)
        /\ stage_out[t].db = "inserted" /\ stage_out[u].db = "raises"
        /\ response[t] = response[u]

\* C6 as stated: when retrieval succeeds without any passage, the prompt
\* passed to generation is the raw user question and source_context is empty.
C6_NoPassagesUsesRawQuestion ==
    \A t \in Turns :
        (NoPassages(t) /\ Generated(t)) =>
            /\ llm_prompts[t] = <<user_query[t]>>
            /\ source_context[t] = EmptyStr

\* C6 as amended: when retrieval succeeds without any passage, the prompt
\* passed to generation is the fallback prompt built around the question
\* (not the raw question) and source_context is empty.
C6_NoPassagesUsesFallbackPrompt ==
    \A t \in Turns :
        (NoPassages(t) /\ Generated(t)) =>
            /\ llm_prompts[t] = <<_create_fallback_prompt(user_query[t])>>
            /\ llm_prompts[t] # <<user_query[t]>>
            /\ source_context[t] = EmptyStr

C6_Witness ==
    \E t \in Turns :
        /\ NoPassages(t) /\ Generated(t)
        /\ stage_out[t].rag.matches # << >>
        /\ llm_prompts[t] = <<_create_fallback_prompt(user_query[t])>>

IsPrefix(p, s) == Len(p) <= Len(s) /\ SubSeq(s, 1, Len(p)) = p

StageOrder == <<"retrieval", "generation", "persistence", "response">>
EscapedStageOrder ==
    <<"retrieval", "generation", "persistence", "error_persistence", "response">>

\* C7: the stages of a turn run one after the other in the order retrieval,
\* generation, persistence, response; no failure skips a stage (an escaping
\* exception adds the error path's save before the response), and no save
\* is made before generation has completed.
C7_StagesInOrder ==
    \A t \in Turns :
        /\ IF Escaped(t) THEN IsPrefix(trace[t], EscapedStageOrder)
           ELSE IsPrefix(trace[t], StageOrder)
        /\ Finished(t) =>
              trace[t] = IF Escaped(t) THEN EscapedStageOrder ELSE StageOrder
        /\ saves[t] # << >> => (Generated(t) /\ Len(llm_prompts[t]) = 1)
        /\ Generated(t) => stage_out[t].rag.kind # "none"
        /\ response[t] # << >> => Persisted(t)

----------------------------------------------------------------------------
(* Properties of the service singletons *)

Returned(th, getter) == th_pc[th] = "returned" /\ th_call[th] = getter

SameInstance(getter) ==
    \A a, b \in Threads :
        (Returned(a, getter) /\ Returned(b, getter)) => th_ret[a] = th_ret[b]

\* C8: under concurrent first use the generation client is initialised at
\* most once (at most one execution of _initialize_client runs to
\* completion) and every caller obtains the same instance.
C8_LLMInitializedOnce ==
    /\ init_calls <= 1
    /\ SameInstance("llm")

\* C9: under concurrent first calls at most one RAGService and at most one
\* SupabaseService is constructed, and every caller obtains the same instance.
C9_GettersConstructOnce ==
    /\ constructed.rag <= 1
    /\ constructed.supabase <= 1
    /\ SameInstance("rag")
    /\ SameInstance("supabase")

----------------------------------------------------------------------------
(* Independence of concurrent turns *)

\* how often the row occurs in the table
Stored(row) == Cardinality({i \in 1..Len(chat_history) : chat_history[i] = row})

\* how many save calls of all the turns inserted the row
Inserted(row) ==
    Cardinality({c \in Turns \X (1..2) :
                    /\ c[2] <= Len(saves[c[1]])
                    /\ saves[c[1]][c[2]].row = row
                    /\ saves[c[1]][c[2]].result = "inserted"})

\* the answer and the context that a turn's own retrieval and generation
\* outcomes determine
OwnContext(t) ==
    IF RetrievalRaised(t) THEN EmptyStr
    ELSE join(SourceSeparator, context_parts(stage_out[t].rag.matches))
OwnAnswer(t) ==
    IF GenerationRaised(t) THEN TechnicalDifficulties
    ELSE try_get_response(stage_out[t].reply).value

OwnRow(t, row) ==
    /\ row.user_id = current_user[t]
    /\ row.user_message = user_query[t]
    /\ \/ row.bot_response = OwnAnswer(t) /\ row.source_context = OwnContext(t)
       \/ row.bot_response = SystemErrorMarker /\ row.source_context = EmptyStr

StoredRows == {chat_history[i] : i \in 1..Len(chat_history)}

\* C10: with several turns in flight, every save and every response of a
\* turn carries that turn's own user_id, question, answer and context, and
\* the table holds exactly the rows of the successful saves: each as often
\* as it was saved, none lost, merged or overwritten.
C10_TurnsIndependent ==
    /\ \A t \in Turns :
          /\ \A i \in 1..Len(saves[t]) : OwnRow(t, saves[t][i].row)
          /\ (Finished(t) /\ ~Escaped(t)) =>
                /\ response[t][1].answer = OwnAnswer(t)
                /\ response[t][1].source_context = OwnContext(t)
    /\ \A row \in StoredRows \cup
                  {saves[c[1]][c[2]].row :
                      c \in {d \in Turns \X (1..2) : d[2] <= Len(saves[d[1]])}} :
          Stored(row) = Inserted(row)

C10_Witness ==
    \E t, u \in Turns :
        /\ t # u /\ Finished(t) /\ Finished(u)
        /\ current_user[t] # current_user[u]
        /\ OwnAnswer(t) # OwnAnswer(u) /\ OwnContext(t) # OwnContext(u)
        /\ stage_out[t].db = "inserted" /\ stage_out[u].db = "inserted"
        /\ Len(chat_history) >= 2
        /\ chat_history[1] = saves[u][1].row

----------------------------------------------------------------------------
(* Properties of the generation client *)

Called(name) == name \in DOMAIN client_out

\* the messages of the exceptions get_response raises, which are all the
\* caller has to tell them apart (every one is a plain Exception)
TimeoutSignal ==
    <<"The request timed out as the model is taking too long to respond.">>
UnauthorizedSignal ==
    <<"Authentication failed. Please check your HUGGINGFACE_API_TOKEN.">>
RateLimitedSignal == <<"Rate limit exceeded. Please try again later.">>
ModelLoadingSignal ==
    <<"The model is currently loading. Please try again in a few moments.">>
ModelNotFoundSignal == <<"Model not found. Please check the model name.">>

\* the error outcome that a message stands for
SignalOf(error) ==
    IF error = TimeoutSignal THEN "Timeout"
    ELSE IF error = UnauthorizedSignal THEN "Unauthorized"
    ELSE IF error = RateLimitedSignal THEN "RateLimited"
    ELSE IF error = ModelLoadingSignal THEN "ModelLoading"
    ELSE IF error = ModelNotFoundSignal THEN "ModelNotFound"
    ELSE IF error # << >> /\ error[1] = "Network error occurred: " THEN "NetworkError"
    ELSE "UpstreamError"

\* C11: a 2xx reply whose body is an object with an error field makes
\* get_response fail with the model-loading signal when the message contains
\* "currently loading", with the rate-limited signal when it contains "rate
\* limited", and with the generic upstream-error signal otherwise, so that the
\* caller can tell the three cases apart.
C11_ErrorFieldSignalsDistinct ==
    (Called("get_response") /\ client_reply.kind = "dict_error") =>
        LET r == client_out["get_response"]
            words == Tokens(lower(client_reply.text))
        IN  /\ r.raised
            /\ SignalOf(r.error) =
                   IF "is currently loading" \in words THEN "ModelLoading"
                   ELSE IF "rate limited" \in words THEN "RateLimited"
                   ELSE "UpstreamError"

RequestFailureKinds == {"timeout", "connection_error", "http_error", "invalid_json"}

\* the error outcome the failure of a request is to be reported as
ExpectedSignal(reply) ==
    IF reply.kind = "timeout" THEN "Timeout"
    ELSE IF reply.kind = "connection_error" THEN "NetworkError"
    ELSE IF reply.kind = "invalid_json" THEN "UpstreamError"
    ELSE IF reply.status = 401 THEN "Unauthorized"
    ELSE IF reply.status = 429 THEN "RateLimited"
    ELSE IF reply.status = 503 THEN "ModelLoading"
    ELSE IF reply.status = 404 THEN "ModelNotFound"
    ELSE "UpstreamError"

\* C12: get_response reports a failed request as Timeout (timeout),
\* Unauthorized (401), RateLimited (429), ModelLoading (503), ModelNotFound
\* (404), NetworkError (any other transport failure) or UpstreamError (any
\* other status, or a malformed payload); neither a timeout nor a malformed
\* payload is reported as NetworkError.
C12_RequestFailuresDistinguished ==
    (Called("get_response") /\ client_reply.kind \in RequestFailureKinds) =>
        LET r == client_out["get_response"]
        IN  /\ r.raised
            /\ SignalOf(r.error) = ExpectedSignal(client_reply)

----------------------------------------------------------------------------
(* Properties of the prompt and of the source context *)

\* the retrieval block of the turn has run
Retrieved(t) == stage_out[t].rag.kind # "none"

\* sub occurs in s as a contiguous piece
Contains(s, sub) ==
    \E i \in 0..(Len(s) - Len(sub)) : SubSeq(s, i + 1, i + Len(sub)) = sub

EndsWithCue(s) == s # << >> /\ s[Len(s)] = "Answer:"

\* C13 as stated: on every path (grounded, no passage, retrieval failure) the
\* prompt handed to the generation client contains the literal question and
\* ends with the cue "Answer:".
C13_PromptEndsWithCueOnEveryPath ==
    \A t \in Turns :
        Generated(t) =>
            /\ Contains(llm_prompts[t][1], user_query[t])
            /\ EndsWithCue(llm_prompts[t][1])

\* C13 as amended: on every path the prompt handed to the generation client
\* contains the literal question; it ends with the cue "Answer:" when the
\* prompt builder returned it (grounded or no passage), and it is the raw
\* question, with no cue appended, when retrieval raised.
C13_PromptEndsWithCueWhenBuilt ==
    \A t \in Turns :
        Generated(t) =>
            /\ Len(llm_prompts[t]) = 1
            /\ Contains(llm_prompts[t][1], user_query[t])
            /\ ~RetrievalRaised(t) => EndsWithCue(llm_prompts[t][1])
            /\ RetrievalRaised(t) =>
                   /\ llm_prompts[t][1] = user_query[t]
                   /\ ~EndsWithCue(llm_prompts[t][1])

C13_Witness ==
    \E t \in Turns :
        /\ Generated(t) /\ ~RetrievalRaised(t) /\ ~NoPassages(t)
        /\ Contains(llm_prompts[t][1], user_query[t])
        /\ EndsWithCue(llm_prompts[t][1])
        /\ llm_prompts[t][1] # user_query[t]

\* C14: the source_context that the retrieval step leaves, and the one a
\* successful turn returns, is the empty string if and only if no retrieved
\* match carried a non-empty text.
C14_SourceContextEmptyIffNoText ==
    \A t \in Turns :
        /\ Retrieved(t) =>
              (source_context[t] = EmptyStr <=> (RetrievalRaised(t) \/ NoPassages(t)))
        /\ (Finished(t) /\ ~Escaped(t)) =>
              (response[t][1].source_context = EmptyStr
                  <=> (RetrievalRaised(t) \/ NoPassages(t)))

C14_Witness ==
    \E t \in Turns :
        /\ Finished(t) /\ ~Escaped(t)
        /\ stage_out[t].rag.kind = "matches"
        /\ Len(stage_out[t].rag.matches) = 2
        /\ stage_out[t].rag.matches[1].text = <<EmptyStr>>
        /\ stage_out[t].rag.matches[2].text # << >>
        /\ stage_out[t].rag.matches[2].text # <<EmptyStr>>
        /\ response[t][1].source_context # EmptyStr

\* the match carries a non-empty text
CarriesText(match) == match.text # << >> /\ match.text[1] # EmptyStr

\* the texts of the matches that carry one, in the order of the matches
TextsInOrder(matches) ==
    LET with_text == SelectSeq(matches, CarriesText)
    IN  [i \in 1..Len(with_text) |-> with_text[i].text[1]]

\* source_context is the texts joined by sep, and the prompt has every text
JoinedInOrder(t, sep) ==
    LET texts == TextsInOrder(stage_out[t].rag.matches)
    IN  /\ source_context[t] = join(sep, texts)
        /\ \A i \in 1..Len(texts) : Contains(final_prompt[t], texts[i])

\* C15: for a non-empty list of matches, source_context is the
\* texts of the matches that carry one, in the engine's order, joined by a
\* newline, and final_prompt contains each of these texts verbatim.
C15_SourceContextNewlineJoined ==
    \A t \in Turns :
        (stage_out[t].rag.kind = "matches" /\ stage_out[t].rag.matches # << >>)
            => JoinedInOrder(t, <<"\n">>)

\* what get_final_prompt_for_llm does instead: the same texts in the same
\* order, joined by two newlines (line 112)
C15_SourceContextBlankLineJoined ==
    \A t \in Turns :
        (stage_out[t].rag.kind = "matches" /\ stage_out[t].rag.matches # << >>)
            => JoinedInOrder(t, <<"\n", "\n">>)

\* C16: building the prompt without a usable passage is not an error: the
\* result is the fallback prompt, which contains the literal question and no
\* context block, and an empty source_context.
C16_NoPassagesGivesFallbackPrompt ==
    \A t \in Turns :
        (Retrieved(t) /\ NoPassages(t)) =>
            /\ user_query[t] # EmptyStr /\ strip(user_query[t]) = user_query[t]
            /\ final_prompt[t] # user_query[t]
            /\ Contains(final_prompt[t], <<"Question: ">> \o user_query[t])
            /\ "Context:" \notin Tokens(final_prompt[t])
            /\ ~Contains(final_prompt[t], ContextSeparator)
            /\ source_context[t] = EmptyStr

C16_Witness ==
    \E t \in Turns :
        /\ Retrieved(t) /\ NoPassages(t)
        /\ stage_out[t].rag.matches = << >>
        /\ Contains(final_prompt[t], user_query[t])
        /\ source_context[t] = EmptyStr

----------------------------------------------------------------------------
(* Properties of the generated text *)

ReplyHasText == client_reply.kind \in {"list", "dict_text"}

\* C17: for every generated text X, the empty one included, the reply
\* [{"generated_text": X}] and the reply {"generated_text": X} give the same
\* result, from get_response and from the request made with overrides.
C17_BothShapesSameResult ==
    /\ (Called("get_response") /\ Called("other_shape")) =>
           client_out["get_response"] = client_out["other_shape"]
    /\ (Called("with_overrides") /\ Called("with_overrides_other_shape")) =>
           client_out["with_overrides"] = client_out["with_overrides_other_shape"]

C17_Witness ==
    /\ client_reply = Reply("dict_text", 200, T2)
    /\ Called("get_response") /\ Called("other_shape")
    /\ Called("with_overrides") /\ Called("with_overrides_other_shape")
    /\ ~client_out["get_response"].raised
    /\ client_out["get_response"].value = <<"Yes", ".">>
    /\ client_out["other_shape"].value = <<"Yes", ".">>

\* C18: cleaning a cleaned text changes nothing:
\* _clean_response(_clean_response(s)) = _clean_response(s) for every s.
C18_CleaningIdempotent ==
    Called("clean_again") => client_out["clean_again"] = client_out["clean"]

C18_Witness ==
    /\ client_reply.text = T3
    /\ Called("clean_again")
    /\ client_out["clean"].value = <<"Fact one", ".", " ", "Fact two", ".">>
    /\ client_out["clean_again"].value = client_out["clean"].value

\* the text without surrounding whitespace and without everything up to its
\* last "Answer:" marker
AfterLastMarker(s) ==
    LET trimmed == strip(s)
        after(k) == SubSeq(trimmed, k + 1, Len(trimmed))
    IN  IF \E k \in 1..Len(trimmed) : trimmed[k] = "Answer:"
        THEN strip(after(CHOOSE k \in 1..Len(trimmed) :
                       /\ trimmed[k] = "Answer:"
                       /\ "Answer:" \notin Tokens(after(k))))
        ELSE trimmed

HasSeparator(s) == \E k \in 1..(Len(s) - 1) : s[k] = "." /\ s[k + 1] = " "

\* the text is cut off: it ends in no terminal punctuation and has a ". "
Truncated(s) ==
    /\ s # << >>
    /\ s[Len(s)] \notin {".", "!", "?"}
    /\ HasSeparator(s)

\* C19: a text that (trimmed, after its last "Answer:") ends in no terminal
\* punctuation and has a ". " separator is cleaned to that text without its
\* final sentence and with the period restored; any other text is cleaned to
\* that text with nothing dropped.
C19_TruncationRepair ==
    Called("clean") =>
        LET kept == AfterLastMarker(client_reply.text)
            out == client_out["clean"].value
        IN  IF Truncated(kept)
            THEN /\ out[Len(out)] = "."
                 /\ \E k \in 1..(Len(kept) - 1) :
                       /\ kept[k] = "." /\ kept[k + 1] = " "
                       /\ out = SubSeq(kept, 1, k)
                       /\ ~HasSeparator(SubSeq(kept, k + 2, Len(kept)))
            ELSE out = kept

C19_Witness ==
    /\ client_reply.text = <<"Fact", ".", " ", "Fact">>
    /\ Called("clean")
    /\ client_out["clean"].value = <<"Fact", ".">>

\* the endpoint answered without an error and without a generated text
EmptyGeneration(reply) ==
    reply.kind \in {"list", "dict_text", "other"} /\ reply.text = EmptyStr

\* C20: when the endpoint answers without generated text, the generation
\* client returns the fixed placeholder as a normal result, and the turn's
\* answer is that placeholder, not the technical-difficulties apology.
C20_EmptyTextGivesPlaceholder ==
    \A t \in Turns :
        (Generated(t) /\ EmptyGeneration(stage_out[t].reply)) =>
            /\ bot_response[t] = EmptyPlaceholder
            /\ bot_response[t] # TechnicalDifficulties
            /\ (Finished(t) /\ ~Escaped(t)) =>
                   /\ response[t][1].answer = EmptyPlaceholder
                   /\ response[t][1].success

C20_Witness ==
    \E t \in Turns :
        /\ Finished(t) /\ ~Escaped(t)
        /\ EmptyGeneration(stage_out[t].reply)
        /\ response[t][1].answer = EmptyPlaceholder
        /\ saves[t][1].row.bot_response = EmptyPlaceholder

----------------------------------------------------------------------------
(* Properties of the request *)

Blank(s) == \A i \in 1..Len(s) : s[i] \in {" ", "\n"}

Trimmed(s) == s = << >> \/ (s[1] \notin {" ", "\n"} /\ s[Len(s)] \notin {" ", "\n"})

\* the turn has entered the handler
InPipeline(t) == pc[t] \notin {"Start", "Rejected"}

\* C21: an empty or blank question is rejected and causes no retrieval,
\* generation or save; a question that reaches the pipeline is non-empty,
\* has no whitespace at either end, has at most 1000 characters and is the
\* posted question trimmed (unchanged when that was already trimmed).
C21_OnlyValidatedQuestionsReachPipeline ==
    \A t \in Turns :
        /\ (pc[t] # "Start" /\ Blank(raw_question[t])) => pc[t] = "Rejected"
        /\ pc[t] = "Rejected" =>
              /\ trace[t] = << >> /\ llm_prompts[t] = << >> /\ saves[t] = << >>
              /\ response[t] = << >>
        /\ InPipeline(t) =>
              /\ user_query[t] # EmptyStr
              /\ Trimmed(user_query[t])
              /\ len(user_query[t]) <= 1000
              /\ user_query[t] = strip(raw_question[t])
              /\ Trimmed(raw_question[t]) => user_query[t] = raw_question[t]

C21_Witness ==
    \E t \in Turns :
        /\ Finished(t)
        /\ raw_question[t] = <<" ", LongWord, " ">>
        /\ user_query[t] = <<LongWord>>
        /\ saves[t][1].row.user_message = <<LongWord>>

----------------------------------------------------------------------------
(* Properties of the error path and of the saved record *)

\* C22: a turn whose exception escaped the guarded stages attempts one more
\* save, with the system-error marker as answer and an empty context, and
\* then returns the generic apology with source_context = "", success = false
\* and an error message; this holds whether that save succeeds or raises.
C22_EscapeSavesMarkerAndApologizes ==
    \A t \in Turns :
        (Finished(t) /\ Escaped(t)) =>
            /\ stage_out[t].error_db # "none"
            /\ LET last == saves[t][Len(saves[t])]
               IN  /\ last.row.bot_response = SystemErrorMarker
                   /\ last.row.source_context = EmptyStr
                   /\ last.row.user_id = current_user[t]
                   /\ last.row.user_message = user_query[t]
                   /\ last.result = stage_out[t].error_db
            /\ Len(response[t]) = 1
            /\ response[t][1].answer = GenericApology
            /\ response[t][1].source_context = EmptyStr
            /\ response[t][1].success = FALSE
            /\ response[t][1].error_message # << >>

C22_Witness ==
    \E t \in Turns :
        /\ Finished(t) /\ Escaped(t)
        /\ stage_out[t].error_db = "raises"
        /\ response[t][1].answer = GenericApology
        /\ response[t][1].error_message # << >>

\* C23: for a turn that returns success = true, the answer and the context
\* given to the save are the answer and source_context of the response, and
\* the user_id and question given to it are those of the request.
C23_SavedRecordMatchesResponse ==
    \A t \in Turns :
        (Finished(t) /\ response[t][1].success) =>
            /\ Len(saves[t]) = 1
            /\ saves[t][1].row.bot_response = response[t][1].answer
            /\ saves[t][1].row.source_context = response[t][1].source_context
            /\ saves[t][1].row.user_id = current_user[t]
            /\ saves[t][1].row.user_message = user_query[t]

C23_Witness ==
    \E t \in Turns :
        /\ Finished(t) /\ response[t][1].success
        /\ response[t][1].source_context # EmptyStr
        /\ response[t][1].answer = T1
        /\ saves[t][1].row.bot_response = T1
        /\ saves[t][1].row.source_context = response[t][1].source_context

----------------------------------------------------------------------------
(* The store on its own *)

StoreReads == {"history", "statistics"}

\* C24: the store is append-only: every step keeps the rows already stored,
\* in place and unchanged, and adds at most one row; a read (history or
\* statistics) leaves the table exactly as it was, and a save whose insert
\* stores a row adds exactly that one row at the end.
C24_StoreAppendOnly ==
    [][/\ IsPrefix(chat_history, chat_history')
       /\ Len(chat_history') <= Len(chat_history) + 1
       /\ store_out'.op \in StoreReads => chat_history' = chat_history
       /\ store_out'.op = "save" =>
             IF store_out'.db = "inserted"
             THEN /\ Len(chat_history') = Len(chat_history) + 1
                  /\ store_out'.table = chat_history
             ELSE chat_history' = chat_history]_vars

C24_Witness ==
    /\ Len(chat_history) = MaxRows
    /\ \E i, j \in 1..Len(chat_history) :
          i < j /\ chat_history[i].user_id = chat_history[j].user_id
    /\ store_out.op \in StoreReads
    /\ store_out.table = chat_history
    /\ ~store_out.result.raised


RowsOf(table, user_id) ==
    {k \in 1..Len(table) : table[k].user_id = user_id}

\* C25: a history read that the database answers does not raise and returns
\* only rows of the asked user that are in the table, newest first, at most
\* `limit` of them: the rows at the places offset+1, offset+2, ... of the
\* user's rows ordered newest first, as many as there are up to `limit`; in
\* particular the empty sequence when the user has no rows or the offset is
\* past the end.
C25_HistoryNewestFirstPage ==
    (store_out.op = "history" /\ ~store_out.failed) =>
        LET data == store_out.result.data
            table == store_out.table
            user_id == store_out.user_id
            N == Cardinality(RowsOf(table, user_id))
            Rest == IF N > store_out.offset THEN N - store_out.offset ELSE 0
        IN  /\ ~store_out.result.raised
            /\ \A i \in 1..Len(data) :
                  /\ data[i].user_id = user_id
                  /\ \E k \in RowsOf(table, user_id) : table[k] = data[i]
                  /\ Cardinality({k \in RowsOf(table, user_id) :
                         table[k].created_at > data[i].created_at})
                       <= store_out.offset + i - 1
                  /\ Cardinality({k \in RowsOf(table, user_id) :
                         table[k].created_at >= data[i].created_at})
                       >= store_out.offset + i
            /\ \A i, j \in 1..Len(data) :
                  i < j => data[i].created_at >= data[j].created_at
            /\ Len(data) <= store_out.limit
            /\ Len(data) = Min(store_out.limit, Rest)
            /\ (N = 0 \/ store_out.offset >= N) => data = << >>

C25_Witness ==
    /\ store_out.op = "history" /\ ~store_out.failed
    /\ store_out.offset = 1
    /\ Len(store_out.result.data) = 1
    /\ \E i, j, k \in 1..Len(store_out.table) :
          /\ i < j
          /\ store_out.table[i].user_id = store_out.user_id
          /\ store_out.table[j].user_id = store_out.user_id
          /\ store_out.table[i].created_at < store_out.table[j].created_at
          /\ store_out.table[k].user_id # store_out.user_id
          /\ store_out.result.data[1] = store_out.table[i]

\* the rows a statistics call is about: the user's, or all of them
InScope(table, user_id) ==
    IF user_id = << >> THEN 1..Len(table) ELSE RowsOf(table, user_id[1])

\* C26: a statistics call that the database answers does not raise; over no
\* rows (no rows at all, or none of the asked user) it returns a total of 0
\* and a mean answer length of 0, and over any rows it returns as total the
\* number of rows in scope.
C26_StatisticsTotalAndMean ==
    (store_out.op = "statistics" /\ ~store_out.failed) =>
        LET N == Cardinality(InScope(store_out.table, store_out.user_id))
        IN  /\ ~store_out.result.raised
            /\ store_out.result.data.total_chats = N
            /\ N = 0 => store_out.result.data.average_response_length = Zero

\* the same on tables whose created_at is read back without an offset
C26_StatisticsOnNaiveTimestamps ==
    ~timestamptz => C26_StatisticsTotalAndMean

----------------------------------------------------------------------------
(* Termination of a turn *)

\* C27: a turn that has started eventually reaches Done, whatever its stages
\* did, and when it has, it has made a save attempt and holds a response.
C27_StartedTurnReachesDone ==
    \A t \in 1..NumTurns :
        (t \in DOMAIN pc /\ pc[t] # "Start") ~>
            (/\ t \in DOMAIN pc
             /\ pc[t] = "Done"
             /\ Len(saves[t]) >= 1
             /\ Len(response[t]) = 1)

C27_Witness ==
    \E t \in DOMAIN pc :
        /\ pc[t] = "Done"
        /\ stage_out[t].rag.kind # "matches"
        /\ stage_out[t].reply.kind = "timeout"
        /\ stage_out[t].db = "raises"
        /\ Len(saves[t]) >= 1
        /\ Len(response[t]) = 1

----------------------------------------------------------------------------
(* The two paths of query_huggingface_model *)

SameOutcome(a, b) ==
    /\ a.raised = b.raised
    /\ ~a.raised => a.value = b.value

\* C28: for the same answer of the endpoint, the default path (get_response)
\* and the path taken with a per-call token or model give the same outcome:
\* one raises exactly when the other does, and when they return they return
\* the same answer.
C28_OverridePathSameOutcome ==
    (Called("get_response") /\ Called("with_overrides")) =>
        SameOutcome(client_out["get_response"], client_out["with_overrides"])

\* the same for every answer of the endpoint but a 2xx error object
C28_SameOutcomeButForErrorObject ==
    (Called("get_response") /\ Called("with_overrides")
        /\ client_reply.kind \notin {"dict_error", "dict_error_text"}) =>
        SameOutcome(client_out["get_response"], client_out["with_overrides"])

----------------------------------------------------------------------------
(* Failed initialisation of the generation client *)

NotInitializedSignal == <<"LLMService is not properly initialized.">>

\* get_response refused before sending a request
Refused(out) == out.raised /\ out.error = NotInitializedSignal

InitializedOnlyAfterInit ==
    /\ _initialized = "True" => (init_calls >= 1 /\ api_url)
    /\ \A th \in Threads :
          Returned(th, "llm") =>
              /\ th_ret[th] = _instance /\ _instance # None
              /\ init_calls >= 1 /\ api_url
    /\ Called("after_construction") =>
          /\ api_url
          /\ ~Refused(client_out["after_construction"])
    /\ \A reply \in FirstUseReplies : Refused(get_response(FALSE, reply))

FailedInitLeavesUnmarked ==
    \A th \in Threads :
        /\ (th_pc[th] = "init_client" /\ th_pc'[th] = "raised") =>
              /\ _initialized' = _initialized
              /\ api_url' = api_url /\ init_calls' = init_calls
        /\ (th_pc[th] = "init_check" /\ th_pc'[th] # "init_check") =>
              th_pc'[th] = IF _initialized = "True" THEN "returned" ELSE "init_client"
        /\ (th_pc[th] # "init_mark" /\ th_pc'[th] = "init_mark") =>
              (api_url' /\ init_calls' = init_calls + 1)
        /\ (_initialized # "True" /\ _initialized' = "True") =>
              \E m \in Threads : th_pc[m] = "init_mark" /\ th_pc'[m] = "returned"

\* C29: the instance is marked _initialized only after some run of
\* _initialize_client completed (which set api_url); a run that fails raises
\* to its caller and changes neither the mark nor api_url, so the next
\* LLMService() finds the instance unmarked and runs _initialize_client
\* again; every caller that obtains the instance finds api_url set, and
\* get_response on an instance without api_url refuses before any request.
C29_FailedInitNeverMarked ==
    /\ []InitializedOnlyAfterInit
    /\ [][FailedInitLeavesUnmarked]_vars

C29_Witness ==
    \E a, b \in Threads :
        /\ th_call[a] = "llm" /\ th_pc[a] = "raised"
        /\ Returned(b, "llm")
        /\ init_calls = 1 /\ _initialized = "True"
        /\ Called("after_construction")
        /\ ~client_out["after_construction"].raised
====
